---- MODULE Spec2Model ----
(***************************************************************************)
(* Model of kitty's low-level container fields                             *)
(* (kitty/model/low_level/container.py).                                   *)
(*                                                                         *)
(* Python objects live in a heap: a sequence of field records addressed    *)
(* by their position (the object's identity); 0 is None.  Every method is  *)
(* an operator from a heap to a heap (and a result), so that aliasing      *)
(* (a ForEach and the parent of its target driving the same field) is      *)
(* kept.  A raised exception is recorded in the heap's err component and   *)
(* stops the call that raised it.                                          *)
(*                                                                         *)
(* Renders are sequences of tokens: a character (one byte) or a bit.        *)
(***************************************************************************)
EXTENDS Integers, Sequences, FiniteSets, TLC

VARIABLES
    heap,      \* the objects
    root,      \* the field the caller drives
    tmpl,      \* which of the templates was constructed
    op,        \* the last call made on root
    ret,       \* the result of the last mutate() call
    nm,        \* the result of the last num_mutations() call (-1: none yet)
    out,       \* the result of the last render() call
    hval,      \* the result of the last hash() call (-1: none yet)
    calls,     \* mutate() calls since construction or the last reset()
    trues,     \* how many of them returned True
    log,       \* <<current_index, render>> after each successful mutate() of this run
    prevLog,   \* the log of the previous run (before the last reset())
    resets,    \* reset() calls so far
    builds     \* push, pop, append_fields and replace_fields calls so far

vars ==
    <<heap, root, tmpl, op, ret, nm, out, hval, calls, trues, log, prevLog, resets,
      builds>>

-----------------------------------------------------------------------------
(* Bounds *)

\* mutate() calls the caller makes in one run
MaxCalls == 14
\* reset() calls the caller makes
MaxResets == 2
\* push, pop, append_fields and replace_fields calls the builder makes
MaxBuilds == 2
\* mutate() calls the builder makes in one run
MaxBuilderCalls == 3
\* reset() calls the builder makes
MaxBuilderResets == 1

-----------------------------------------------------------------------------
(* Objects *)

NoName == ""

\* Python's None where an integer is expected (min_elements, max_elements)
None == 0 - 1

LeafKinds == {"Group", "Static"}

ContainerKinds ==
    {"Container", "ForEach", "If", "IfNot", "Meta", "Pad", "Repeat", "OneOf",
     "TakeFrom", "Template", "Trunc"}

\* BaseField.__init__ and Container.__init__ (before replace_fields): the
\* attributes of a field object.  Attributes a class does not have keep the
\* value given here and are never read for that class.
\* the condition of a field that has none; a condition compares the value of
\* the field named field with value, and has a hash
NoCondition == [field |-> NoName, value |-> <<>>, hash |-> 0]

NewField(kind, name) ==
    [kind |-> kind, name |-> name, fuzzable |-> TRUE, enclosing |-> 0,
     current_index |-> -1, num_mutations |-> 0,
     values |-> <<>>, default_value |-> <<>>,
     fields |-> <<>>, fields_dict |-> <<>>, field_idx |-> 0,
     containers |-> <<>>, ready |-> FALSE,
     mutated_name |-> NoName, mutated_field |-> 0,
     min_times |-> 1, max_times |-> 1, step |-> 1, repeats |-> 0,
     min_elements |-> 1, max_elements |-> None,
     condition |-> NoCondition, pad_length |-> 0, pad_data |-> <<>>]

EmptyHeap == [nodes |-> <<>>, err |-> "", sample |-> <<>>]

IsContainer(h, id) == h.nodes[id].kind \in ContainerKinds

Raise(h, what) == [h EXCEPT !.err = what]

Alloc(h, node) == [h EXCEPT !.nodes = Append(@, node)]

-----------------------------------------------------------------------------
(* Container: building *)

RECURSIVE Container_push(_, _, _)
RECURSIVE Container_pop(_, _)
RECURSIVE Container_append_fields(_, _, _)

Container_container(h, id) ==
    IF Len(h.nodes[id].containers) > 0
    THEN h.nodes[id].containers[Len(h.nodes[id].containers)]
    ELSE 0

Container_clean_info(h, id) ==
    [h EXCEPT !.nodes[id].fields = <<>>,
              !.nodes[id].fields_dict = <<>>,
              !.nodes[id].field_idx = 0,
              !.nodes[id].containers = <<>>,
              !.nodes[id].ready = FALSE]

\* a push that does not look the name up
Container_push_here_unchecked(h, id, field) ==
    [h EXCEPT !.nodes[id].fields = Append(@, field),
              !.nodes[id].fields_dict =
                  IF h.nodes[field].name # NoName
                  THEN (h.nodes[field].name :> field) @@ @
                  ELSE @]

\* the else branch of push: the field becomes a direct child
Container_push_here(h, id, field) ==
    IF h.nodes[field].name \in DOMAIN h.nodes[id].fields_dict
    THEN Raise(h, "KittyException: field already exists")
    ELSE [h EXCEPT !.nodes[id].fields = Append(@, field),
                   !.nodes[id].fields_dict =
                       IF h.nodes[field].name # NoName
                       THEN (h.nodes[field].name :> field) @@ @
                       ELSE @]

\* the first lines of push: field._set_enclosing(self) and, for a container,
\* self._containers.append(field)
Container_push_open(h, id, field) ==
    [h EXCEPT !.nodes[field].enclosing = id,
              !.nodes[id].containers = IF IsContainer(h, field) THEN Append(@, field) ELSE @]

\* a push that never delegates to the open container
Container_push_into_self(h, id, field, container) ==
    Container_push_here(Container_push_open(h, id, field), id, field)

\* push(field); container is self._container() as read on entry
Container_push_into(h, id, field, container) ==
    IF container # 0
    THEN Container_push(Container_push_open(h, id, field), container, field)
    ELSE Container_push_here(Container_push_open(h, id, field), id, field)

Container_push(h, id, field) ==
    IF h.err # "" THEN h
    ELSE Container_push_into(h, id, field, Container_container(h, id))

\* a pop that closes the container in the stack of self only
Container_pop_outer_only(h, id) == h

\* the last lines of pop: if self._container(): self._container().pop()
Container_pop_inner(h, id) ==
    IF Container_container(h, id) # 0
    THEN Container_pop(h, Container_container(h, id))
    ELSE h

Container_pop(h, id) ==
    IF h.err # "" THEN h
    ELSE IF Len(h.nodes[id].containers) = 0
    THEN Raise(h, "KittyException: no container to pop")
    ELSE Container_pop_inner(
             [h EXCEPT !.nodes[id].containers = SubSeq(@, 1, Len(@) - 1)], id)

\* one round of the loop of append_fields
Container_append_field(h, id, field) ==
    IF IsContainer(h, field)
    THEN Container_pop(Container_push(h, id, field), id)
    ELSE Container_push(h, id, field)

\* append_fields(new_fields): new_fields is a sequence of objects
Container_append_fields(h, id, new_fields) ==
    IF h.err # "" \/ new_fields = <<>> THEN h
    ELSE Container_append_fields(Container_append_field(h, id, Head(new_fields)),
                                 id, Tail(new_fields))

Container_replace_fields(h, id, new_fields) ==
    Container_append_fields(Container_clean_info(h, id), id, new_fields)

\* the object last allocated
Last(h) == Len(h.nodes)

\* Container(fields=fields, name=name), and the same first lines of the
\* constructors of its subclasses; the new object is Last of the result
Container_init(h, kind, name, fields) ==
    Container_replace_fields(Alloc(h, NewField(kind, name)), Len(h.nodes) + 1, fields)

-----------------------------------------------------------------------------
(* Copies and TakeFrom's sub-containers *)

RECURSIVE Field_copy(_, _)
RECURSIVE CopyFields(_, _, _)
RECURSIVE NewContainers(_, _, _, _)
RECURSIVE AppendContainer(_, _, _, _)

\* BaseField.copy: a new object (Last of the result) with the same
\* attributes, in its default state and enclosed by nothing
BaseField_copy(h, id) ==
    Alloc(h, [h.nodes[id] EXCEPT !.enclosing = 0, !.current_index = -1])

\* [field.copy() for field in fs], appended to acc; the result is the heap
\* and the copies
CopyFields(h, fs, acc) ==
    IF fs = <<>> THEN [h |-> h, r |-> acc]
    ELSE CopyFields(Field_copy(h, Head(fs)), Tail(fs), Append(acc, Len(h.nodes) + 1))

\* self._fields.index(container)
Index(fields, field) ==
    CHOOSE idx \in 1..Len(fields) :
        /\ fields[idx] = field
        /\ \A j \in 1..(idx - 1) : fields[j] # field

\* {field.get_name(): field for field in dup_fields if field.get_name() is not
\* None}: the last field of a name wins
DupDict(h, dup_fields) ==
    [n \in {h.nodes[dup_fields[i]].name : i \in {j \in 1..Len(dup_fields) :
                                                  h.nodes[dup_fields[j]].name # NoName}} |->
        dup_fields[CHOOSE i \in 1..Len(dup_fields) :
                      /\ h.nodes[dup_fields[i]].name = n
                      /\ \A j \in 1..Len(dup_fields) :
                            h.nodes[dup_fields[j]].name = n => j <= i]]

\* the body of Container.copy after the fields were copied: dup is the copy of
\* self, cs the heap and the copies of the fields
Container_copy_fields(cs, id, dup) ==
    [cs.h EXCEPT !.nodes =
        [n \in DOMAIN cs.h.nodes |->
            IF n = dup
            THEN [cs.h.nodes[dup] EXCEPT
                     !.fields = cs.r,
                     !.fields_dict = DupDict(cs.h, cs.r),
                     !.containers =
                         [i \in 1..Len(cs.h.nodes[id].containers) |->
                             cs.r[Index(cs.h.nodes[id].fields, cs.h.nodes[id].containers[i])]]]
            ELSE IF \E i \in 1..Len(cs.r) : cs.r[i] = n
            THEN [cs.h.nodes[n] EXCEPT !.enclosing = dup]
            ELSE cs.h.nodes[n]]]

\* Container.copy; the copy is the object allocated first, Len(h.nodes) + 1
Container_copy(h, id) ==
    Container_copy_fields(CopyFields(BaseField_copy(h, id), h.nodes[id].fields, <<>>),
                          id, Len(h.nodes) + 1)

\* field.copy(), by the class of the object; the copy is Len(h.nodes) + 1
Field_copy(h, id) ==
    IF IsContainer(h, id) THEN Container_copy(h, id) ELSE BaseField_copy(h, id)

\* the copies CopyFields makes of fs in h: each copy is the object allocated
\* first by its copy()
CopiesOf(h, fs) == CopyFields(h, fs, <<>>)

\* k-element samples of n fields (random.sample draws without replacement,
\* in some order), as positions in self._fields
Samples(n, k) ==
    {s \in [1..k -> 1..n] : \A i, j \in 1..k : i # j => s[i] # s[j]}

RECURSIVE SampleOutcomes(_, _, _)
\* what the sampling loop of _rebuild_fields can leave in new_field_lists when
\* it ends, for field_list_len from k to max_elements: for each length,
\* how_many samples no two of which are equal as lists
SampleOutcomes(n, k, max_elements) ==
    IF k > max_elements THEN {<<>>}
    ELSE {q \o rest :
            q \in {d \in [1..(max_elements + 1 - k) -> Samples(n, k)] :
                      \A i, j \in 1..(max_elements + 1 - k) : i # j => d[i] # d[j]},
            rest \in SampleOutcomes(n, k + 1, max_elements)}

SublistName(h, id, i) ==
    IF h.nodes[id].name # NoName
    THEN h.nodes[id].name \o "_sublist_" \o ToString(i)
    ELSE "sublist_" \o ToString(i)

\* Container(fields=dup_fields, name=name) for the i-th list (from 1)
NewContainer(dup_fields, id, i) ==
    Container_init(dup_fields.h, "Container", SublistName(dup_fields.h, id, i - 1),
                   dup_fields.r)

\* new_containers.append(...): the container is the object allocated last
AppendContainer(h, id, i, acc) ==
    NewContainers(h, id, i + 1, Append(acc, Last(h)))

\* the second loop of _rebuild_fields: one Container of copies per list, the
\* containers appended to acc
NewContainers(h, id, i, acc) ==
    IF h.err # "" \/ i > Len(h.sample) THEN [h |-> h, r |-> acc]
    ELSE AppendContainer(
             NewContainer(CopiesOf(h, [j \in 1..Len(h.sample[i]) |->
                                          h.nodes[id].fields[h.sample[i][j]]]), id, i),
             id, i, acc)

RebuiltFields(new_containers, id) ==
    Container_replace_fields(new_containers.h, id, new_containers.r)

\* _rebuild_fields: h.sample is what the sampling loop left in new_field_lists
TakeFrom_rebuild_fields(h, id) ==
    RebuiltFields(NewContainers(h, id, 1, <<>>), id)

-----------------------------------------------------------------------------
(* Name resolution *)

RECURSIVE Container_scan_for_field(_, _, _)
RECURSIVE ScanFields(_, _, _)
RECURSIVE BaseField_resolve_field(_, _, _)

\* a loop that returns what the first child container's scan returns
ScanFields_first_container(h, fs, field_key) ==
    IF fs = <<>> THEN 0
    ELSE IF IsContainer(h, Head(fs))
    THEN Container_scan_for_field(h, Head(fs), field_key)
    ELSE ScanFields(h, Tail(fs), field_key)

\* the loop of scan_for_field over self._fields: the first child container
\* whose scan finds the key
ScanFields(h, fs, field_key) ==
    IF fs = <<>> THEN 0
    ELSE LET resolved == IF IsContainer(h, Head(fs))
                         THEN Container_scan_for_field(h, Head(fs), field_key)
                         ELSE 0
         IN  IF resolved # 0 THEN resolved ELSE ScanFields(h, Tail(fs), field_key)

Container_scan_for_field(h, id, field_key) ==
    IF field_key = h.nodes[id].name THEN id
    ELSE IF field_key \in DOMAIN h.nodes[id].fields_dict
    THEN h.nodes[id].fields_dict[field_key]
    ELSE ScanFields(h, h.nodes[id].fields, field_key)

\* BaseField.resolve_field for a name: the downward scan from this container,
\* then the same from each enclosing container up to the root; 0 on a miss
BaseField_resolve_field(h, id, field_key) ==
    LET resolved == Container_scan_for_field(h, id, field_key)
    IN  IF resolved # 0 THEN resolved
        ELSE IF h.nodes[id].enclosing # 0
        THEN BaseField_resolve_field(h, h.nodes[id].enclosing, field_key)
        ELSE 0

-----------------------------------------------------------------------------
(* Mutation *)

\* field.method(): every call of mutate, num_mutations or reset on a field that
\* a method makes goes through call, which picks the method of the field's
\* class (defined after the methods); the result is the heap and the value
\* returned
RECURSIVE call(_, _, _)
RECURSIVE SumFields(_, _, _)
RECURSIVE ResetFields(_, _)
RECURSIVE MutateFrom(_, _, _)
RECURSIVE ForEach_mutate(_, _)

\* BaseField.num_mutations
BaseField_num_mutations(h, id) ==
    IF h.nodes[id].fuzzable THEN h.nodes[id].num_mutations ELSE 0

\* num += field.num_mutations(); n is the call's result
SumNext(n, fs, num) == SumFields(n.h, Tail(fs), num + n.r)

\* the loop of _get_ready over the fields fs
SumFields(h, fs, num) ==
    IF h.err # "" \/ fs = <<>> THEN [h |-> h, r |-> num]
    ELSE SumNext(call(h, "num_mutations", Head(fs)), fs, num)

Container_calculate_mutations(h, id, num) ==
    [h EXCEPT !.nodes[id].num_mutations = num]

\* self.resolve_field(self._mutated_field): the field itself when it is one
\* already, else the field of that name; 0 when there is none
ForEach_resolve(h, id) ==
    IF h.nodes[id].mutated_field # 0 THEN h.nodes[id].mutated_field
    ELSE BaseField_resolve_field(h, id, h.nodes[id].mutated_name)

\* the last lines of ForEach._calculate_mutations; n is the result of
\* self._mutated_field.num_mutations()
ForEach_multiply(n, id, num) ==
    IF n.h.err # "" THEN n.h
    ELSE [n.h EXCEPT !.nodes[id].num_mutations = num * (IF n.r = 0 THEN 1 ELSE n.r)]

ForEach_resolved(h, id, num, resolved) ==
    IF resolved = 0
    THEN Raise(h, "KittyException: could not resolve field")
    ELSE ForEach_multiply(
             call([h EXCEPT !.nodes[id].mutated_field = resolved], "num_mutations", resolved),
             id, num)

ForEach_calculate_mutations(h, id, num) ==
    ForEach_resolved(h, id, num, ForEach_resolve(h, id))

Repeat_calculate_mutations(h, id, num) ==
    [h EXCEPT !.nodes[id].num_mutations = num + h.nodes[id].repeats]

\* a count without the one mutation per child
OneOf_calculate_mutations_sum_only(h, id, num) ==
    [h EXCEPT !.nodes[id].num_mutations = num]

OneOf_calculate_mutations(h, id, num) ==
    [h EXCEPT !.nodes[id].num_mutations = num + Len(h.nodes[id].fields)]

\* self._calculate_mutations(num), by the class of the object
calculate_mutations(h, id, num) ==
    IF h.nodes[id].kind = "ForEach" THEN ForEach_calculate_mutations(h, id, num)
    ELSE IF h.nodes[id].kind = "Repeat" THEN Repeat_calculate_mutations(h, id, num)
    ELSE IF h.nodes[id].kind \in {"OneOf", "TakeFrom"}
    THEN OneOf_calculate_mutations(h, id, num)
    ELSE Container_calculate_mutations(h, id, num)

\* self._ready = True, unless _calculate_mutations raised
SetReady(h, id) ==
    IF h.err # "" THEN h ELSE [h EXCEPT !.nodes[id].ready = TRUE]

\* the lines of _get_ready after the loop; s is the loop's result
Container_calculate(s, id) ==
    IF s.h.err # "" THEN s.h ELSE SetReady(calculate_mutations(s.h, id, s.r), id)

\* a faulty variant: the count is computed again on every call
Container_get_ready_again(h, id) ==
    IF h.err # "" THEN h
    ELSE Container_calculate(SumFields(h, h.nodes[id].fields, 0), id)

Container_get_ready(h, id) ==
    IF h.err # "" \/ h.nodes[id].ready THEN h
    ELSE Container_calculate(SumFields(h, h.nodes[id].fields, 0), id)

Min(a, b) == IF a < b THEN a ELSE b

\* the bounds of TakeFrom._get_ready: None replaced, max_elements clamped
TakeFrom_bounds(h, id) ==
    [h EXCEPT !.nodes[id].min_elements = IF @ = None THEN 0 ELSE @,
              !.nodes[id].max_elements =
                  Min(IF @ = None THEN Len(h.nodes[id].fields) ELSE @,
                      Len(h.nodes[id].fields))]

TakeFrom_get_ready(h, id) ==
    IF h.err # "" \/ h.nodes[id].ready THEN h
    ELSE Container_get_ready(TakeFrom_rebuild_fields(TakeFrom_bounds(h, id), id), id)

\* self._get_ready(), by the class of the object
get_ready(h, id) ==
    IF h.nodes[id].kind = "TakeFrom" THEN TakeFrom_get_ready(h, id)
    ELSE Container_get_ready(h, id)

\* the value num_mutations() returns once the field is ready
NumResult(h, id) ==
    [h |-> h, r |-> IF h.err # "" THEN 0 ELSE BaseField_num_mutations(h, id)]

\* field.num_mutations(): Container.num_mutations for a container,
\* BaseField.num_mutations for a leaf
Field_num_mutations(h, id) ==
    IF h.err # "" THEN [h |-> h, r |-> 0]
    ELSE IF IsContainer(h, id) THEN NumResult(get_ready(h, id), id)
    ELSE NumResult(h, id)

BaseField_reset(h, id) ==
    [h EXCEPT !.nodes[id].current_index = -1]

\* the loop of Container.reset: field.reset() for each field
ResetFields(h, fs) ==
    IF h.err # "" \/ fs = <<>> THEN h
    ELSE ResetFields(call(h, "reset", Head(fs)).h, Tail(fs))

\* a faulty variant: a reset that leaves the cursor where it was
ResetIdx_kept(h, id) == h

\* self._field_idx = 0, the last line of Container.reset
ResetIdx(h, id) ==
    IF h.err # "" THEN h ELSE [h EXCEPT !.nodes[id].field_idx = 0]

Container_reset(h, id) ==
    ResetIdx(ResetFields(BaseField_reset(h, id), h.nodes[id].fields), id)

\* the last lines of ForEach.reset: before _calculate_mutations has run,
\* _mutated_field is still the name it was constructed with, a str, which has
\* no reset()
ForEach_reset_mutated(h, id, reset_mutated) ==
    IF h.err # "" \/ ~reset_mutated THEN h
    ELSE IF h.nodes[id].mutated_field = 0
    THEN Raise(h, "AttributeError: str has no reset")
    ELSE call(h, "reset", h.nodes[id].mutated_field).h

ForEach_reset(h, id, reset_mutated) ==
    ForEach_reset_mutated(Container_reset(h, id), id, reset_mutated)

\* field.reset(), by the class of the object
Field_reset(h, id) ==
    IF h.err # "" THEN h
    ELSE IF h.nodes[id].kind = "ForEach" THEN ForEach_reset(h, id, TRUE)
    ELSE IF IsContainer(h, id) THEN Container_reset(h, id)
    ELSE BaseField_reset(h, id)

\* a loop body that moves on without resetting the exhausted field
MutateNext_without_reset(m, id, i) ==
    IF m.r THEN m ELSE MutateFrom(m.h, id, i + 1)

\* the body of the loop of Container._mutate after the call of mutate() on the
\* current field, whose result is m
MutateNext(m, id, i) ==
    IF m.r THEN m
    ELSE MutateFrom(call(m.h, "reset", m.h.nodes[id].fields[i + 1]).h, id, i + 1)

\* the loop of Container._mutate from index i (0-based, as in the code)
MutateFrom(h, id, i) ==
    IF h.err # "" \/ i >= Len(h.nodes[id].fields) THEN [h |-> h, r |-> FALSE]
    ELSE MutateNext(call([h EXCEPT !.nodes[id].field_idx = i], "mutate",
                         h.nodes[id].fields[i + 1]),
                    id, i)

Container_mutate(h, id) ==
    MutateFrom(h, id, h.nodes[id].field_idx)

\* a faulty variant: the target's index moved on without asking mutate()
ForEach_mutate_field_unchecked(h, id) ==
    IF h.err # "" THEN h
    ELSE [h EXCEPT !.nodes[h.nodes[id].mutated_field].current_index = @ + 1]

\* self._mutated_field.mutate()
ForEach_mutate_field(h, id) ==
    IF h.err # "" THEN h ELSE call(h, "mutate", h.nodes[id].mutated_field).h

\* a faulty variant of the restart: self.reset(False) without putting
\* self._current_index back
ForEach_restart_losing_index(h, id) == ForEach_reset(h, id, FALSE)

\* idx = self._current_index; self.reset(False); self._current_index = idx
ForEach_restart(h, id) ==
    [ForEach_reset(h, id, FALSE) EXCEPT !.nodes[id].current_index =
                                            h.nodes[id].current_index]

\* a faulty variant: the children start over but the target is not advanced
ForEach_mutated_same_target(m, id) ==
    IF m.r \/ m.h.err # "" THEN m.h
    ELSE ForEach_mutate(ForEach_restart(m.h, id), id)

\* the lines of ForEach._mutate after super()._mutate(), whose result is m
ForEach_mutated(m, id) ==
    IF m.r \/ m.h.err # "" THEN m.h
    ELSE ForEach_mutate(ForEach_mutate_field(ForEach_restart(m.h, id), id), id)

ForEach_mutate(h, id) ==
    IF h.err # "" THEN h
    ELSE ForEach_mutated(
             Container_mutate(IF h.nodes[id].current_index = 0
                              THEN ForEach_mutate_field(h, id)
                              ELSE h, id),
             id)

Repeat_mutate(h, id) ==
    IF h.nodes[id].current_index >= h.nodes[id].repeats
    THEN Container_mutate(h, id).h
    ELSE h

\* a faulty variant: the content phase from the first mutation on
OneOf_mutate_content_only(h, id) == Container_mutate(h, id).h

OneOf_mutate(h, id) ==
    IF h.nodes[id].current_index < Len(h.nodes[id].fields)
    THEN [h EXCEPT !.nodes[id].field_idx = h.nodes[id].current_index]
    ELSE Container_mutate(IF h.nodes[id].current_index = Len(h.nodes[id].fields)
                          THEN [h EXCEPT !.nodes[id].field_idx = 0]
                          ELSE h, id).h

\* self._mutate(), by the class of the object; a leaf's value follows from
\* its current_index
mutate_hook(h, id) ==
    IF h.nodes[id].kind = "ForEach" THEN ForEach_mutate(h, id)
    ELSE IF h.nodes[id].kind = "Repeat" THEN Repeat_mutate(h, id)
    ELSE IF h.nodes[id].kind \in {"OneOf", "TakeFrom"} THEN OneOf_mutate(h, id)
    ELSE IF h.nodes[id].kind \in ContainerKinds THEN Container_mutate(h, id).h
    ELSE h

\* the lines of BaseField.mutate after the field was found exhausted or not;
\* n is the result of self.num_mutations()
Field_mutate_ready(n, id) ==
    IF n.h.err # "" \/ n.h.nodes[id].current_index >= n.r - 1
    THEN [h |-> n.h, r |-> FALSE]
    ELSE [h |-> mutate_hook([n.h EXCEPT !.nodes[id].current_index = @ + 1], id),
          r |-> TRUE]

\* BaseField.mutate
Field_mutate(h, id) ==
    IF h.err # "" THEN [h |-> h, r |-> FALSE]
    ELSE Field_mutate_ready(call(h, "num_mutations", id), id)

\* field.mutate(), field.num_mutations(), field.reset()
call(h, method, id) ==
    CASE method = "mutate" -> Field_mutate(h, id)
      [] method = "num_mutations" -> Field_num_mutations(h, id)
      [] method = "reset" -> [h |-> Field_reset(h, id), r |-> TRUE]

-----------------------------------------------------------------------------
(* Rendering *)

RECURSIVE Field_render(_, _)
RECURSIVE RenderFields(_, _)
RECURSIVE Times(_, _)
RECURSIVE BitLen(_)

\* the length in bits of a buffer: a token is one bit ("b0", "b1") or one
\* byte (any other token, a character)
BitLen(bits) ==
    IF bits = <<>> THEN 0
    ELSE (IF Head(bits) \in {"b0", "b1"} THEN 1 ELSE 8) + BitLen(Tail(bits))

\* ENC_BITS_BYTE_ALIGNED: zero bits appended up to a whole number of bytes
ByteAligned(bits) ==
    [i \in 1..((8 - (BitLen(bits) % 8)) % 8) |-> "b0"]

\* set_current_value: the encoder of the field applied to the value
\* (ENC_BITS_DEFAULT passes it through; a Template aligns it to bytes)
Encode(h, id, bits) ==
    IF h.nodes[id].kind = "Template" THEN bits \o ByteAligned(bits) ELSE bits

\* bits * times
Times(bits, times) ==
    IF times <= 0 THEN <<>> ELSE bits \o Times(bits, times - 1)

\* the loop of Container.render: the fields' renders appended in order
RenderFields(h, fs) ==
    IF fs = <<>> THEN <<>>
    ELSE Field_render(h, Head(fs)) \o RenderFields(h, Tail(fs))

\* a leaf: its default value, or the value of its current mutation
Leaf_render(h, id) ==
    LET me == h.nodes[id]
    IN  IF me.current_index = -1 THEN me.default_value
        ELSE me.values[me.current_index + 1]

Container_render(h, id) ==
    Encode(h, id, RenderFields(h, h.nodes[id].fields))

\* a faulty variant: the enclosed fields rendered
Meta_render_fields(h, id) == RenderFields(h, h.nodes[id].fields)

Meta_render(h, id) == <<>>

\* BaseField._mutating: the field is in a mutated state
mutating(h, id) ==
    /\ h.nodes[id].current_index >= 0
    /\ h.nodes[id].current_index < BaseField_num_mutations(h, id)

\* a faulty variant: the first repetition count is min_times + step
Repeat_times_one_ahead(h, id) ==
    LET me == h.nodes[id]
    IN  IF mutating(h, id) /\ me.current_index < me.repeats
        THEN me.min_times + (me.current_index + 1) * me.step
        ELSE me.min_times

Repeat_times(h, id) ==
    LET me == h.nodes[id]
    IN  IF mutating(h, id) /\ me.current_index < me.repeats
        THEN me.min_times + me.current_index * me.step
        ELSE me.min_times

Repeat_render(h, id) ==
    Encode(h, id, Times(Container_render(h, id), Repeat_times(h, id)))

\* a render of all the fields, as Container.render
OneOf_render_all(h, id) == Container_render(h, id)

OneOf_render(h, id) ==
    Encode(h, id, Field_render(h, h.nodes[id].fields[h.nodes[id].field_idx + 1]))

TakeFrom_render(h, id) ==
    Field_render(h, h.nodes[id].fields[h.nodes[id].field_idx + 1])

\* condition.applies(container): the field the condition names, resolved from
\* the container, has the value the condition compares it with
Condition_applies(h, id) ==
    /\ BaseField_resolve_field(h, id, h.nodes[id].condition.field) # 0
    /\ Field_render(h, BaseField_resolve_field(h, id, h.nodes[id].condition.field))
           = h.nodes[id].condition.value

\* a faulty variant: the test of the condition inverted
If_render_inverted(h, id) ==
    IF ~Condition_applies(h, id) THEN Container_render(h, id) ELSE Encode(h, id, <<>>)

If_render(h, id) ==
    IF Condition_applies(h, id) THEN Container_render(h, id) ELSE Encode(h, id, <<>>)

IfNot_render(h, id) ==
    IF ~Condition_applies(h, id) THEN Container_render(h, id) ELSE Encode(h, id, <<>>)

\* padding_data[:to_pad], padding_data being
\* self._pad_data * (to_pad / len(self._pad_data) + 1); pad_data is a sequence
\* of bits
Pad_padding(pad_data, to_pad) ==
    SubSeq(Times(pad_data, (to_pad \div Len(pad_data)) + 1), 1, to_pad)

\* a faulty variant: the padding not cut to to_pad bits
Pad_padded_uncut(h, id, rendered, to_pad) ==
    IF to_pad > 0
    THEN Encode(h, id, rendered \o Times(h.nodes[id].pad_data,
                                         (to_pad \div Len(h.nodes[id].pad_data)) + 1))
    ELSE rendered

\* the lines of Pad.render after super().render(), whose result is rendered
Pad_padded(h, id, rendered, to_pad) ==
    IF to_pad > 0
    THEN Encode(h, id, rendered \o Pad_padding(h.nodes[id].pad_data, to_pad))
    ELSE rendered

Pad_render(h, id) ==
    Pad_padded(h, id, Container_render(h, id),
               h.nodes[id].pad_length - BitLen(Container_render(h, id)))

\* field.render(), by the class of the object
Field_render(h, id) ==
    LET kind == h.nodes[id].kind
    IN  CASE kind \in LeafKinds -> Leaf_render(h, id)
          [] kind \in {"Container", "Template", "ForEach"} -> Container_render(h, id)
          [] kind = "If" -> If_render(h, id)
          [] kind = "IfNot" -> IfNot_render(h, id)
          [] kind = "Pad" -> Pad_render(h, id)
          [] kind = "Meta" -> Meta_render(h, id)
          [] kind = "Repeat" -> Repeat_render(h, id)
          [] kind = "OneOf" -> OneOf_render(h, id)
          [] kind = "TakeFrom" -> TakeFrom_render(h, id)

-----------------------------------------------------------------------------
(* Structural hash *)

RECURSIVE Field_hash(_, _)
RECURSIVE HashFields(_, _, _)
RECURSIVE khash(_)

\* hashes are kept to this width
HashMod == 2^16

\* the seed of TakeFrom's generator, 0x1234
TakeFrom_seed == 4660

\* khash(*args): a mixer of its arguments
khash(args) ==
    IF args = <<>> THEN 7
    ELSE (khash(SubSeq(args, 1, Len(args) - 1)) * 31 + args[Len(args)] + 1) % HashMod

\* the hash of a class name
TypeHash(kind) ==
    CASE kind = "Group" -> 11 [] kind = "Static" -> 12 [] kind = "Container" -> 13
      [] kind = "ForEach" -> 14 [] kind = "If" -> 15 [] kind = "IfNot" -> 16
      [] kind = "Meta" -> 17 [] kind = "Pad" -> 18 [] kind = "Repeat" -> 19
      [] kind = "OneOf" -> 20 [] kind = "TakeFrom" -> 21 [] kind = "Template" -> 22
      [] kind = "Trunc" -> 23

\* BaseField.hash: built from the type name
BaseField_hash(h, id) == khash(<<TypeHash(h.nodes[id].kind)>>)

\* the loop of Container.hash; -1 stands for an exception raised by a hash()
HashFields(h, fs, hashed) ==
    IF fs = <<>> THEN hashed
    ELSE LET f_hashed == Field_hash(h, Head(fs))
         IN  IF f_hashed = -1 THEN -1
             ELSE HashFields(h, Tail(fs), khash(<<hashed + f_hashed>>))

Container_hash(h, id) ==
    HashFields(h, h.nodes[id].fields, BaseField_hash(h, id))

\* ForEach.hash: _mutated_field.hash(); before _calculate_mutations has run,
\* _mutated_field is the name, a str, which has no hash()
ForEach_hash(h, id) ==
    LET hashed == Container_hash(h, id)
        target == IF h.nodes[id].mutated_field = 0 THEN -1
                  ELSE Field_hash(h, h.nodes[id].mutated_field)
    IN  IF hashed = -1 \/ target = -1 THEN -1 ELSE khash(<<hashed + target>>)

Repeat_hash(h, id) ==
    LET hashed == Container_hash(h, id)
        me == h.nodes[id]
    IN  IF hashed = -1 THEN -1
        ELSE khash(<<hashed, me.min_times, me.max_times, me.step, me.repeats>>)

TakeFrom_hash(h, id) ==
    LET hashed == Container_hash(h, id)
        me == h.nodes[id]
    IN  IF hashed = -1 THEN -1
        ELSE khash(<<hashed, me.min_elements, me.max_elements, TakeFrom_seed>>)

\* If.hash and IfNot.hash: the condition's hash folded in
If_hash(h, id) ==
    LET hashed == Container_hash(h, id)
    IN  IF hashed = -1 THEN -1 ELSE khash(<<hashed, h.nodes[id].condition.hash>>)

RECURSIVE BitsValue(_)
\* the number a sequence of bits spells
BitsValue(bits) ==
    IF bits = <<>> THEN 0
    ELSE 2 * BitsValue(SubSeq(bits, 1, Len(bits) - 1))
             + (IF bits[Len(bits)] = "b1" THEN 1 ELSE 0)

Pad_hash(h, id) ==
    LET hashed == Container_hash(h, id)
        me == h.nodes[id]
    IN  IF hashed = -1 THEN -1
        ELSE khash(<<hashed, me.pad_length, BitsValue(me.pad_data)>>)

\* field.hash(), by the class of the object
Field_hash(h, id) ==
    LET kind == h.nodes[id].kind
    IN  CASE kind \in LeafKinds -> BaseField_hash(h, id)
          [] kind \in {"If", "IfNot"} -> If_hash(h, id)
          [] kind = "Pad" -> Pad_hash(h, id)
          [] kind \in {"Container", "Template", "Meta", "OneOf"} -> Container_hash(h, id)
          [] kind = "ForEach" -> ForEach_hash(h, id)
          [] kind = "Repeat" -> Repeat_hash(h, id)
          [] kind = "TakeFrom" -> TakeFrom_hash(h, id)

-----------------------------------------------------------------------------
(* Constructors: each returns the heap with the new object allocated last *)

\* a leaf field: values[i + 1] is its render at mutation i
Leaf_init(h, kind, name, values, default_value, fuzzable) ==
    Alloc(h, [NewField(kind, name) EXCEPT
                 !.values = values, !.default_value = default_value,
                 !.num_mutations = Len(values), !.fuzzable = fuzzable])

\* Group(values): the default is the first value, one mutation per value
Group_init(h, name, values, fuzzable) ==
    Leaf_init(h, "Group", name, values, values[1], fuzzable)

\* Static(value): no mutations
Static_init(h, value) == Leaf_init(h, "Static", NoName, <<>>, value, TRUE)

\* the lines of ForEach.__init__ after Container.__init__
ForEach_set(h, mutated_name, mutated_field) ==
    [h EXCEPT !.nodes[Last(h)].mutated_name = mutated_name,
              !.nodes[Last(h)].mutated_field = mutated_field]

\* ForEach(mutated_field, fields): mutated_field is a name (mutated_name) or a
\* field object (mutated_field # 0)
ForEach_init(h, mutated_name, mutated_field, fields, name) ==
    ForEach_set(Container_init(h, "ForEach", name, fields), mutated_name, mutated_field)

\* a check that accepts max_times = 0
Repeat_check_times_zero_max(min_times, max_times, step) ==
    (min_times >= 0) /\ (max_times >= 0) /\ (max_times >= min_times) /\ (step > 0)

Repeat_check_times(min_times, max_times, step) ==
    (min_times >= 0) /\ (max_times > 0) /\ (max_times >= min_times) /\ (step > 0)

\* the lines of Repeat.__init__ after Container.__init__
Repeat_set(h, min_times, max_times, step) ==
    IF ~Repeat_check_times(min_times, max_times, step)
    THEN Raise(h, "KittyException: one of the checks failed")
    ELSE [h EXCEPT !.nodes[Last(h)].min_times = min_times,
                   !.nodes[Last(h)].max_times = max_times,
                   !.nodes[Last(h)].step = step,
                   !.nodes[Last(h)].repeats = (max_times - min_times) \div step]

Repeat_init(h, fields, min_times, max_times, step, name) ==
    Repeat_set(Container_init(h, "Repeat", name, fields), min_times, max_times, step)

\* the lines of TakeFrom.__init__ after Container.__init__
TakeFrom_set(h, min_elements, max_elements) ==
    [h EXCEPT !.nodes[Last(h)].min_elements = min_elements,
              !.nodes[Last(h)].max_elements = max_elements]

TakeFrom_init(h, fields, min_elements, max_elements, name) ==
    TakeFrom_set(Container_init(h, "TakeFrom", name, fields), min_elements, max_elements)

\* If(condition, fields) and IfNot(condition, fields)
If_init(h, kind, condition, fields, name) ==
    [Container_init(h, kind, name, fields) EXCEPT
        !.nodes[Len(h.nodes) + 1].condition = condition]

\* Pad(pad_length, pad_data, fields): pad_data as the bits of its bytes
Pad_init(h, pad_length, pad_data, fields, name) ==
    [Container_init(h, "Pad", name, fields) EXCEPT
        !.nodes[Len(h.nodes) + 1].pad_length = pad_length,
        !.nodes[Len(h.nodes) + 1].pad_data = pad_data]

\* Template(fields): the name defaults to 'Template'
Template_init(h, fields) == Container_init(h, "Template", "Template", fields)

\* one constructor call: c names the class and gives the arguments, the
\* fields being objects constructed before
Construct(h, c) ==
    CASE c.class = "Group" -> Group_init(h, c.name, c.values, c.fuzzable)
      [] c.class = "Static" -> Static_init(h, c.value)
      [] c.class = "ForEach" ->
            ForEach_init(h, c.mutated_name, c.mutated_field, c.fields, NoName)
      [] c.class = "Repeat" ->
            Repeat_init(h, c.fields, c.min_times, c.max_times, c.step, NoName)
      [] c.class = "TakeFrom" ->
            TakeFrom_init(h, c.fields, c.min_elements, c.max_elements, NoName)
      [] c.class = "Template" -> Template_init(h, c.fields)
      [] c.class \in {"If", "IfNot"} ->
            If_init(h, c.class, c.condition, c.fields, NoName)
      [] c.class = "Pad" -> Pad_init(h, c.pad_length, c.pad_data, c.fields, NoName)
      [] c.class \in {"Container", "Meta", "OneOf"} ->
            Container_init(h, c.class, c.name, c.fields)

RECURSIVE Build(_, _)
\* the constructor calls cs made in order, innermost fields first
Build(h, cs) ==
    IF cs = <<>> THEN h ELSE Build(Construct(h, Head(cs)), Tail(cs))

-----------------------------------------------------------------------------
(* The templates the caller constructs; the i-th constructor call makes *)
(* object i, and the last one makes the root                            *)

Group(name, values) ==
    [class |-> "Group", name |-> name, values |-> values, fuzzable |-> TRUE]
Static(value) == [class |-> "Static", value |-> value]
ForEach(mutated_name, mutated_field, fields) ==
    [class |-> "ForEach", mutated_name |-> mutated_name,
     mutated_field |-> mutated_field, fields |-> fields]
Repeat(fields, min_times, max_times, step) ==
    [class |-> "Repeat", fields |-> fields, min_times |-> min_times,
     max_times |-> max_times, step |-> step]
TakeFrom(fields, min_elements, max_elements) ==
    [class |-> "TakeFrom", fields |-> fields, min_elements |-> min_elements,
     max_elements |-> max_elements]
Container(class, name, fields) == [class |-> class, name |-> name, fields |-> fields]
\* ConditionCompare(field, '==', value), with the hash it reports
ConditionCompare(field, value, hash) == [field |-> field, value |-> value, hash |-> hash]
If(class, condition, fields) ==
    [class |-> class, condition |-> condition, fields |-> fields]
Pad(pad_length, pad_data, fields) ==
    [class |-> "Pad", pad_length |-> pad_length, pad_data |-> pad_data, fields |-> fields]

abc == << <<"a">>, <<"b">>, <<"c">> >>
n123 == << <<"1">>, <<"2">>, <<"3">> >>
ab == << <<"a">>, <<"b">> >>
n12 == << <<"1">>, <<"2">> >>
xy == << <<"x">>, <<"y">> >>

\* Template([Group(['a','b','c']), Group(['1','2','3'])])
T_Odometer ==
    << Group(NoName, abc), Group(NoName, n123), Container("Template", NoName, <<1, 2>>) >>

\* Template([Group(['a','b','c'], name='letters'),
\*           ForEach('letters', [Group(['1','2','3'])])])
T_ForEach ==
    << Group("letters", abc), Group(NoName, n123), ForEach("letters", 0, <<2>>),
       Container("Template", NoName, <<1, 3>>) >>

\* letters = Group(['a','b']); ForEach(letters, [Group(['1','2']), Group(['x','y'])])
T_ForEachField ==
    << Group("letters", ab), Group(NoName, n12), Group(NoName, xy),
       ForEach(NoName, 1, <<2, 3>>) >>

\* ForEach(Static('s'), [Group(['1','2'])]): a target without mutations
T_ForEachStatic ==
    << Static(<<"s">>), Group(NoName, n12), ForEach(NoName, 1, <<2>>) >>

\* Template([Group(['a','b'], name='letters'),
\*           ForEach('letters', [OneOf([Group(['1','2']), Static('s')])])])
T_ForEachOneOf ==
    << Group("letters", ab), Group(NoName, n12), Static(<<"s">>),
       Container("OneOf", NoName, <<2, 3>>), ForEach("letters", 0, <<4>>),
       Container("Template", NoName, <<1, 5>>) >>

\* Repeat([Static('a')], min_times=5, max_times=10, step=5)
T_RepeatStatic ==
    << Static(<<"a">>), Repeat(<<1>>, 5, 10, 5) >>

\* Repeat([Group(['a','b']), Static('s')], min_times=1, max_times=3, step=1)
T_RepeatGroup ==
    << Group(NoName, ab), Static(<<"s">>), Repeat(<<1, 2>>, 1, 3, 1) >>

\* Repeat([Group(['x','y'])], min_times=0, max_times=5, step=2)
T_RepeatStep ==
    << Group(NoName, xy), Repeat(<<1>>, 0, 5, 2) >>

\* OneOf([Group(['a','b']), Static('s'), Group(['1','2'])])
T_OneOf ==
    << Group(NoName, ab), Static(<<"s">>), Group(NoName, n12),
       Container("OneOf", NoName, <<1, 2, 3>>) >>

\* Template([TakeFrom([Group(['a','b']), Static('s')], min_elements=1)])
T_TakeFrom ==
    << Group(NoName, ab), Static(<<"s">>), TakeFrom(<<1, 2>>, 1, None),
       Container("Template", NoName, <<3>>) >>

\* Template([Container([Group(['a','b'])], name='c'), Meta([Group(['1','2'])]),
\*           Group(['x','y'], fuzzable=False), Static('s')])
T_Nested ==
    << Group(NoName, ab), Container("Container", "c", <<1>>),
       Group(NoName, n12), Container("Meta", NoName, <<3>>),
       [Group(NoName, xy) EXCEPT !.fuzzable = FALSE], Static(<<"s">>),
       Container("Template", NoName, <<2, 4, 5, 6>>) >>

\* Template([Group(['a','b','c'], name='letters'),
\*           If(ConditionCompare('letters', '==', 'a'), [Static('dvil')])])
T_If ==
    << Group("letters", abc), Static(<<"d", "v", "i", "l">>),
       If("If", ConditionCompare("letters", <<"a">>, 41), <<2>>),
       Container("Template", NoName, <<1, 3>>) >>

\* Template([Group(['a','b','c'], name='letters'),
\*           IfNot(ConditionCompare('letters', '==', 'a'), [Static('ar')])])
T_IfNot ==
    << Group("letters", abc), Static(<<"a", "r">>),
       If("IfNot", ConditionCompare("letters", <<"a">>, 41), <<2>>),
       Container("Template", NoName, <<1, 3>>) >>

\* Template([Group(['a','b'], name='letters'),
\*           If(ConditionCompare('letters', '==', 'a'), [Group(['1','2']), Group(['x','y'])]),
\*           IfNot(ConditionCompare('letters', '==', 'a'), [Group(['1','2'])])])
T_IfGroups ==
    << Group("letters", ab), Group(NoName, n12), Group(NoName, xy),
       If("If", ConditionCompare("letters", <<"a">>, 41), <<2, 3>>),
       Group(NoName, n12),
       If("IfNot", ConditionCompare("letters", <<"a">>, 41), <<5>>),
       Container("Template", NoName, <<1, 4, 6>>) >>

\* Container([Static('no sp'), Meta([Static(' ')]), Static('ace')])
T_Meta ==
    << Static(<<"n", "o", " ", "s", "p">>), Static(<<" ">>),
       Container("Meta", NoName, <<2>>), Static(<<"a", "c", "e">>),
       Container("Container", NoName, <<1, 3, 4>>) >>

\* the bits of the byte 0xA5
xA5 == <<"b1", "b0", "b1", "b0", "b0", "b1", "b0", "b1">>

\* Pad(20, '\xa5', [Group(['a', 'bcd']), Group(['1', '2'])]): 20 bits of
\* length, children of 16 and of 32 bits
T_Pad ==
    << Group(NoName, << <<"a">>, <<"b", "c", "d">> >>), Group(NoName, n12),
       Pad(20, xA5, <<1, 2>>) >>

\* Template([Pad(8, '\xa5', [Group(['a','b'])]), Pad(3, '\xa5', [])]): the
\* children exactly as long as the padded length, and no children at all
T_PadExact ==
    << Group(NoName, ab), Pad(8, xA5, <<1>>), Pad(3, xA5, <<>>),
       Container("Template", NoName, <<2, 3>>) >>

\* Template([Container([Group(['a','b'], name='x'),
\*                      Container([Group(['1','2'], name='y')], name='c2')], name='c1'),
\*           Container([Group(['x','y'], name='z')], name='c3'),
\*           Static('s')])
T_Scoped ==
    << Group("x", ab), Group("y", n12), Container("Container", "c2", <<2>>),
       Container("Container", "c1", <<1, 3>>),
       Group("z", xy), Container("Container", "c3", <<5>>),
       Static(<<"s">>), Container("Template", NoName, <<4, 6, 7>>) >>

Templates ==
    <<T_Odometer, T_ForEach, T_ForEachField, T_ForEachStatic, T_ForEachOneOf,
      T_RepeatStatic, T_RepeatGroup, T_RepeatStep, T_OneOf, T_TakeFrom, T_Nested,
      T_If, T_IfNot, T_IfGroups, T_Meta, T_Pad, T_PadExact, T_Scoped>>

\* the TakeFrom objects of a heap
TakeFroms(h) == {id \in DOMAIN h.nodes : h.nodes[id].kind = "TakeFrom"}

\* what the seeded generator can make the sampling loop of TakeFrom id produce
DrawsOf(h, id) ==
    SampleOutcomes(Len(h.nodes[id].fields), h.nodes[id].min_elements,
                   h.nodes[id].max_elements)

\* the same for a heap, whose templates hold at most one TakeFrom
Draws(h) ==
    IF TakeFroms(h) = {} THEN {<<>>}
    ELSE DrawsOf(TakeFrom_bounds(h, CHOOSE id \in TakeFroms(h) : TRUE),
                 CHOOSE id \in TakeFroms(h) : TRUE)

\* the heap after the constructor calls cs, with the generator's outcome s
Constructed(h, s) == [h EXCEPT !.sample = s]

-----------------------------------------------------------------------------
(* The caller: one call of the field API on the root per step *)

Init ==
    /\ tmpl \in 1..Len(Templates)
    /\ root = Len(Templates[tmpl])
    /\ heap \in {Constructed(Build(EmptyHeap, Templates[tmpl]), s) :
                    s \in Draws(Build(EmptyHeap, Templates[tmpl]))}
    /\ op = "init"
    /\ ret = FALSE
    /\ nm = -1
    /\ out = <<>>
    /\ hval = -2
    /\ calls = 0
    /\ trues = 0
    /\ log = <<>>
    /\ prevLog = <<>>
    /\ resets = 0
    /\ builds = 0

Mutate ==
    /\ heap.err = ""
    /\ calls < MaxCalls
    /\ LET m == Field_mutate(heap, root)
       IN  /\ heap' = m.h
           /\ ret' = m.r
           /\ trues' = IF m.r THEN trues + 1 ELSE trues
           /\ log' = IF m.r /\ m.h.err = ""
                     THEN Append(log, <<m.h.nodes[root].current_index, Field_render(m.h, root)>>)
                     ELSE log
    /\ calls' = calls + 1
    /\ op' = "mutate"
    /\ nm' = -1 /\ out' = <<>> /\ hval' = -2
    /\ UNCHANGED <<root, tmpl, prevLog, resets, builds>>

Reset ==
    /\ heap.err = ""
    /\ resets < MaxResets
    /\ heap' = Field_reset(heap, root)
    /\ op' = "reset"
    /\ calls' = 0 /\ trues' = 0
    /\ prevLog' = log /\ log' = <<>>
    /\ resets' = resets + 1
    /\ ret' = FALSE /\ nm' = -1 /\ out' = <<>> /\ hval' = -2
    /\ UNCHANGED <<root, tmpl, builds>>

Render ==
    /\ heap.err = ""
    /\ out' = Field_render(heap, root)
    /\ op' = "render"
    /\ ret' = FALSE /\ nm' = -1 /\ hval' = -2
    /\ UNCHANGED <<heap, root, tmpl, calls, trues, log, prevLog, resets, builds>>

NumMutations ==
    /\ heap.err = ""
    /\ LET n == Field_num_mutations(heap, root)
       IN  heap' = n.h /\ nm' = n.r
    /\ op' = "num_mutations"
    /\ ret' = FALSE /\ out' = <<>> /\ hval' = -2
    /\ UNCHANGED <<root, tmpl, calls, trues, log, prevLog, resets, builds>>

Hash ==
    /\ heap.err = ""
    /\ hval' = Field_hash(heap, root)
    /\ op' = "hash"
    /\ ret' = FALSE /\ nm' = -1 /\ out' = <<>>
    /\ UNCHANGED <<heap, root, tmpl, calls, trues, log, prevLog, resets, builds>>

Next == Mutate \/ Reset \/ Render \/ NumMutations \/ Hash

Spec == Init /\ [][Next]_vars

-----------------------------------------------------------------------------
(* The builder: a container filled by push, pop, append_fields and          *)
(* replace_fields, also after it was made ready                             *)

\* the fields the builder holds, constructed before the container: a named
\* Group, a second Group of the same name, a Container, a ForEach on the
\* name, a TakeFrom; then the container itself, Container(name='root'), which
\* is the root
T_Builder ==
    << Group("letters", ab), Group("letters", n12),
       Group(NoName, xy), Container("Container", "c", <<3>>),
       Group(NoName, n12), ForEach("letters", 0, <<5>>),
       Group(NoName, ab), TakeFrom(<<7>>, 1, None),
       Container("Container", "root", <<>>) >>

\* the fields the builder pushes: the Group and the Container
Pushable == {2, 4}

\* the lists the builder passes to append_fields and replace_fields: the named
\* Group with the ForEach on it, and the TakeFrom
Batches == { <<1, 6>>, <<8>> }

\* the elements of a sequence
Range(seq) == {seq[i] : i \in 1..Len(seq)}

\* the containers that hold field as a direct child
Holders(h, field) ==
    {c \in DOMAIN h.nodes : field \in Range(h.nodes[c].fields)}

InitBuild ==
    /\ tmpl = 0
    /\ root = Len(T_Builder)
    /\ heap \in {Constructed(Build(EmptyHeap, T_Builder), s) :
                    s \in Draws(Build(EmptyHeap, T_Builder))}
    /\ op = "init"
    /\ ret = FALSE
    /\ nm = -1
    /\ out = <<>>
    /\ hval = -2
    /\ calls = 0
    /\ trues = 0
    /\ log = <<>>
    /\ prevLog = <<>>
    /\ resets = 0
    /\ builds = 0

\* what every call of the builder does to the caller's records
Built(name) ==
    /\ builds' = builds + 1
    /\ op' = name
    /\ ret' = FALSE /\ nm' = -1 /\ out' = <<>> /\ hval' = -2
    /\ UNCHANGED <<root, tmpl, calls, trues, log, prevLog, resets>>

\* root.push(field), field held by no container yet
Push(field) ==
    /\ heap.err = ""
    /\ builds < MaxBuilds
    /\ Holders(heap, field) = {}
    /\ heap' = Container_push(heap, root, field)
    /\ Built("push")

\* root.pop()
Pop ==
    /\ heap.err = ""
    /\ builds < MaxBuilds
    /\ heap' = Container_pop(heap, root)
    /\ Built("pop")

\* root.append_fields(new_fields), the fields held by no container yet
AppendFields(new_fields) ==
    /\ heap.err = ""
    /\ builds < MaxBuilds
    /\ \A f \in Range(new_fields) : Holders(heap, f) = {}
    /\ heap' = Container_append_fields(heap, root, new_fields)
    /\ Built("append_fields")

\* root.replace_fields(new_fields), the fields held by no other container
ReplaceFields(new_fields) ==
    /\ heap.err = ""
    /\ builds < MaxBuilds
    /\ \A f \in Range(new_fields) : Holders(heap, f) \subseteq {root}
    /\ heap' = Container_replace_fields(heap, root, new_fields)
    /\ Built("replace_fields")

\* root.mutate(), a bounded number of times in one run
BuilderMutate == calls < MaxBuilderCalls /\ Mutate

\* root.reset(), a bounded number of times
BuilderReset == resets < MaxBuilderResets /\ Reset

NextBuild ==
    \/ \E field \in Pushable : Push(field)
    \/ Pop
    \/ \E new_fields \in Batches : AppendFields(new_fields)
    \/ \E new_fields \in Batches : ReplaceFields(new_fields)
    \/ NumMutations
    \/ BuilderMutate
    \/ BuilderReset

SpecBuild == InitBuild /\ [][NextBuild]_vars

RECURSIVE Receiver(_, _)
\* the container a push on id ends in: the innermost container left open
Receiver(h, id) ==
    IF Container_container(h, id) = 0 THEN id
    ELSE Receiver(h, Container_container(h, id))

-----------------------------------------------------------------------------
(* Properties of the mutation API, under Spec *)

\* what root.num_mutations() returns in this state
RootNum == Field_num_mutations(heap, root).r

\* the template that was constructed is t
Constructs(t) == Templates[tmpl] = t

\* the renders of a log, in order
Renders(l) == [i \in 1..Len(l) |-> l[i][2]]

\* C1: from the initial or a freshly reset state, the successive mutate() calls
\* on the root return True exactly num_mutations() times and False on every
\* later call: after calls calls, min(calls, num_mutations) of them returned
\* True, and the last returned True iff it was not beyond num_mutations
C1_MutateTrueNumMutationsTimes ==
    heap.err = "" =>
        /\ trues = Min(calls, RootNum)
        /\ op = "mutate" => (ret <=> calls <= RootNum)

\* C1 witness: in a second run (after a reset), the twelve mutations of the
\* ForEach template were made and two more calls returned False
C1_Exhausted ==
    /\ resets = 1 /\ op = "mutate" /\ ~ret
    /\ RootNum = 12 /\ trues = 12 /\ calls = 14

RECURSIVE MutateTimes(_, _, _)
\* k calls of the plain container step Container._mutate on id
MutateTimes(h, id, k) ==
    IF k = 0 THEN h ELSE MutateTimes(Container_mutate(h, id).h, id, k - 1)

\* the sum of the children's num_mutations() of container id
ChildrenSum(h, id) == SumFields(h, h.nodes[id].fields, 0).r

\* the state h with the children of id put in their default state and then
\* taken k steps through the plain odometer, all else (the current_index of id,
\* the target of a ForEach) as in h
ChildrenAt(h, id, k) ==
    [MutateTimes(Container_reset(h, id), id, k) EXCEPT
        !.nodes[id].current_index = h.nodes[id].current_index]

\* the target of ForEach id is at mutation index i (-1: its default state)
TargetAt(h, id, i) == h.nodes[h.nodes[id].mutated_field].current_index = i

\* C2: a ready ForEach has num_mutations = S * max(M, 1), S the sum of the
\* children's counts and M the target's; at its mutation index j the target is
\* in state j div S and the children are in state j mod S of their odometer
\* (reached from their default state), so every pair of a target state and a
\* children state belongs to exactly one index j, the target advances by one
\* exactly when the children start over, and j itself survives that restart
C2_ForEachCrossProduct ==
    \A id \in DOMAIN heap.nodes :
        (heap.err = "" /\ heap.nodes[id].kind = "ForEach" /\ heap.nodes[id].ready) =>
            LET S == ChildrenSum(heap, id)
                M == Field_num_mutations(heap, heap.nodes[id].mutated_field).r
                j == heap.nodes[id].current_index
            IN  /\ heap.nodes[id].num_mutations = S * (IF M > 1 THEN M ELSE 1)
                /\ j >= 0 =>
                      /\ TargetAt(heap, id, IF M = 0 THEN -1 ELSE j \div S)
                      /\ heap = ChildrenAt(heap, id, (j % S) + 1)

\* C2 witness: ForEach(letters, [Group(1,2), Group(x,y)]) at index 5 of 8: the
\* target is at its second value and the children at the second step of the
\* odometer they restarted
C2_SecondRound ==
    /\ Constructs(T_ForEachField) /\ heap.err = ""
    /\ heap.nodes[root].num_mutations = 8
    /\ heap.nodes[root].current_index = 5
    /\ TargetAt(heap, root, 1)
    /\ op = "render" /\ out = <<"2", "x">>

\* C3: for Template([Group(a,b,c, name=L), ForEach(L, [Group(1,2,3)])]), once
\* mutate() has returned False the renders made after the successful mutations
\* are exactly a1, a2, a3, b1, b2, b3, c1, c2, c3
C3_NineRenders ==
    (Constructs(T_ForEach) /\ heap.err = "" /\ op = "mutate" /\ ~ret) =>
        Renders(log) = << <<"a", "1">>, <<"a", "2">>, <<"a", "3">>,
                          <<"b", "1">>, <<"b", "2">>, <<"b", "3">>,
                          <<"c", "1">>, <<"c", "2">>, <<"c", "3">> >>

\* the render of field id in its default state
DefaultRender(h, id) == Field_render(Field_reset(h, id), id)

\* C4: a ready OneOf of n children has num_mutations = (the sum of the
\* children's counts) + n, and at mutation index k < n it renders as child k
\* does in its default state
C4_OneOfDefaultsFirst ==
    \A id \in DOMAIN heap.nodes :
        (heap.err = "" /\ heap.nodes[id].kind = "OneOf" /\ heap.nodes[id].ready) =>
            LET n == Len(heap.nodes[id].fields)
                k == heap.nodes[id].current_index
            IN  /\ heap.nodes[id].num_mutations = ChildrenSum(heap, id) + n
                /\ (0 <= k /\ k < n) =>
                      Field_render(heap, id) =
                          DefaultRender(heap, heap.nodes[id].fields[k + 1])

\* C4 witness: OneOf([Group(a,b), Static(s), Group(1,2)]) after its third
\* mutation renders the default of the third child
C4_ThirdChild ==
    /\ Constructs(T_OneOf) /\ heap.err = ""
    /\ heap.nodes[root].num_mutations = 7
    /\ heap.nodes[root].current_index = 2
    /\ op = "render" /\ out = <<"1">>

C6_ReachesMaxTimes ==
    Constructs(T_RepeatStatic) =>
        /\ op = "init" => Field_render(heap, root) = Times(<<"a">>, 5)
        /\ (heap.err = "" /\ op = "mutate" /\ ~ret) =>
               \E i \in 1..Len(log) : log[i][2] = Times(<<"a">>, 10)

\* every field is in its default state and every cursor at the first child
InitialState(h) ==
    \A id \in DOMAIN h.nodes :
        h.nodes[id].current_index = -1 /\ h.nodes[id].field_idx = 0

\* C7: reset() succeeds after any number of mutations (none included), leaves
\* every field at current_index -1 and every container at field_idx 0, and the
\* run that follows repeats the (current_index, render) pairs of the run before
\* it, as far as both go
C7_ResetReplays ==
    /\ op = "reset" => (heap.err = "" /\ InitialState(heap))
    /\ resets > 0 =>
          \A i \in 1..Min(Len(log), Len(prevLog)) : log[i] = prevLog[i]

\* the hash of the root right after construction
InitialHash ==
    Field_hash(Constructed(Build(EmptyHeap, Templates[tmpl]), heap.sample), root)

\* C8: hash() of the root never fails and returns what it returned right
\* after construction, whatever mutate(), num_mutations() and reset() calls
\* were made since
C8_HashInvariant ==
    op = "hash" => (hval # -1 /\ hval = InitialHash)

\* the children of container id are where the plain container's step puts
\* them when taken from their default state as many times as id was mutated
PlainOdometer(h, id) ==
    h.nodes[id].current_index >= 0 =>
        h = ChildrenAt(h, id, h.nodes[id].current_index + 1)

C12_MetaRendersNothing ==
    /\ \A id \in DOMAIN heap.nodes :
          (heap.err = "" /\ heap.nodes[id].kind = "Meta") =>
              /\ Field_render(heap, id) = <<>>
              /\ heap.nodes[id].ready =>
                     heap.nodes[id].num_mutations = ChildrenSum(heap, id)
              /\ PlainOdometer(heap, id)
    /\ (Constructs(T_Nested) /\ heap.err = "" /\ heap.nodes[root].ready) =>
           heap.nodes[root].num_mutations = 4
    /\ (Constructs(T_Meta) /\ heap.err = "") =>
           Field_render(heap, root) = <<"n", "o", " ", "s", "p", "a", "c", "e">>

\* C12 witness: the Group inside the Meta at its second value, the fourth
\* mutation of the template, which renders without it
C12_MetaChildMutated ==
    /\ Constructs(T_Nested) /\ heap.err = ""
    /\ heap.nodes[root].current_index = 3
    /\ heap.nodes[3].current_index = 1
    /\ op = "render" /\ out = <<"a", "x", "s">>

\* C13: a Pad with pad data renders max(the children's length, pad_length)
\* bits: the children's render, then bits of the pad data repeated from its
\* start; children of pad_length bits or more are rendered unchanged
C13_PadLength ==
    \A id \in DOMAIN heap.nodes :
        (heap.err = "" /\ heap.nodes[id].kind = "Pad") =>
            LET rendered == Field_render(heap, id)
                inner == RenderFields(heap, heap.nodes[id].fields)
                pad_data == heap.nodes[id].pad_data
                pad_length == heap.nodes[id].pad_length
            IN  /\ BitLen(rendered) =
                       IF BitLen(inner) > pad_length THEN BitLen(inner) ELSE pad_length
                /\ BitLen(rendered) >= pad_length
                /\ Len(rendered) >= Len(inner)
                /\ SubSeq(rendered, 1, Len(inner)) = inner
                /\ \A i \in 1..(Len(rendered) - Len(inner)) :
                       rendered[Len(inner) + i] = pad_data[((i - 1) % Len(pad_data)) + 1]
                /\ BitLen(inner) >= pad_length => rendered = inner

\* C13 witness: Pad(20, 0xA5, ...) over 16 bits renders them and the first
\* four bits of the pad byte
C13_FourBitsPadded ==
    /\ Constructs(T_Pad) /\ heap.err = ""
    /\ heap.nodes[root].current_index = 3
    /\ op = "render" /\ out = <<"a", "2", "b1", "b0", "b1", "b0">>

RECURSIVE Tree(_, _)
\* the fields of the tree under id, id itself included
Tree(h, id) ==
    {id} \cup UNION {Tree(h, h.nodes[id].fields[i]) : i \in DOMAIN h.nodes[id].fields}

\* the fields of the tree under id that carry the name n
Carriers(h, id, n) == {f \in Tree(h, id) : h.nodes[f].name = n}

\* C19: for every name carried by exactly one field of the root's tree, the
\* scan from a container of the tree returns that field if it lies under the
\* container and None (0) if not, and resolve_field returns that field from
\* every field of the tree
C19_Confluent ==
    heap.err = "" =>
        \A f \in Tree(heap, root) :
            (heap.nodes[f].name # NoName /\
             Carriers(heap, root, heap.nodes[f].name) = {f}) =>
                /\ \A c \in Tree(heap, root) :
                       IsContainer(heap, c) =>
                           Container_scan_for_field(heap, c, heap.nodes[f].name) =
                               IF f \in Tree(heap, c) THEN f ELSE 0
                /\ \A d \in Tree(heap, root) :
                       BaseField_resolve_field(heap, d, heap.nodes[f].name) = f

\* C19 witness: in the template of three named containers, after a mutate(),
\* the Group 'z' of the second branch is resolved from the Group 'y' two
\* levels down the first branch, whose containers' scans do not reach it
C19_AcrossBranches ==
    /\ Constructs(T_Scoped) /\ heap.err = "" /\ op = "mutate" /\ ret
    /\ BaseField_resolve_field(heap, 2, "z") = 5
    /\ Container_scan_for_field(heap, 3, "z") = 0
    /\ Container_scan_for_field(heap, 4, "z") = 0
    /\ Container_scan_for_field(heap, root, "z") = 5

\* field f is the target of a ForEach, resolved or given by its name
IsTarget(h, f) ==
    \E e \in DOMAIN h.nodes :
        /\ h.nodes[e].kind = "ForEach"
        /\ \/ h.nodes[e].mutated_field = f
           \/ (h.nodes[f].name # NoName /\ h.nodes[e].mutated_name = h.nodes[f].name)

RECURSIVE CountBefore(_, _, _)
\* the sum of num_mutations() of the first i children of container id
CountBefore(h, id, i) ==
    IF i = 0 THEN 0
    ELSE CountBefore(h, id, i - 1) + Field_num_mutations(h, h.nodes[id].fields[i]).r

\* C20: in a Container or Template of the root's tree none of whose children
\* is the target of a ForEach, every child but fields[field_idx] is in its
\* default state (current_index -1), and when the container is at mutation
\* index j the child fields[field_idx] is at index j minus the num_mutations
\* of the children before it; the Template of Group(a,b,c) and Group(1,2,3)
\* renders a1, b1, c1, a1, a2, a3 in its six mutations
C20_DefaultOdometer ==
    heap.err = "" =>
        /\ \A id \in Tree(heap, root) :
               (/\ heap.nodes[id].kind \in {"Container", "Template"}
                /\ \A i \in DOMAIN heap.nodes[id].fields :
                       ~IsTarget(heap, heap.nodes[id].fields[i])) =>
                   /\ \A i \in DOMAIN heap.nodes[id].fields :
                          heap.nodes[heap.nodes[id].fields[i]].current_index # -1 =>
                              i = heap.nodes[id].field_idx + 1
                   /\ heap.nodes[id].current_index >= 0 =>
                          /\ heap.nodes[id].field_idx < Len(heap.nodes[id].fields)
                          /\ heap.nodes[heap.nodes[id].fields[
                                  heap.nodes[id].field_idx + 1]].current_index =
                                 heap.nodes[id].current_index -
                                     CountBefore(heap, id, heap.nodes[id].field_idx)
        /\ Constructs(T_Odometer) =>
               \E k \in 0..6 :
                   Renders(log) =
                       SubSeq(<< <<"a", "1">>, <<"b", "1">>, <<"c", "1">>,
                                 <<"a", "1">>, <<"a", "2">>, <<"a", "3">> >>, 1, k)

\* C20 witness: the Template of Group(a,b,c) and Group(1,2,3) after its fifth
\* mutation: the first Group was reset, the second is at its second value
C20_SecondChildSecondValue ==
    /\ Constructs(T_Odometer) /\ heap.err = "" /\ op = "mutate" /\ ret
    /\ heap.nodes[root].current_index = 4
    /\ heap.nodes[root].field_idx = 1
    /\ heap.nodes[1].current_index = -1
    /\ heap.nodes[2].current_index = 1
    /\ Renders(log) = << <<"a", "1">>, <<"b", "1">>, <<"c", "1">>,
                         <<"a", "1">>, <<"a", "2">> >>

\* C21: a ready OneOf of n children at a mutation index j >= n has its cursor
\* on a child that is at index j - n - (the num_mutations of the children
\* before it), every other child being in its default state, and renders
\* what that child renders; so the indices from n on run through the
\* mutations of child 0, then of child 1, and so on, each once.
\* OneOf([Group(a,b), Static(s), Group(1,2)]) renders a, s, 1 and then a, b,
\* 1, 2
C21_OneOfContentPhase ==
    heap.err = "" =>
        /\ \A id \in Tree(heap, root) :
               (/\ heap.nodes[id].kind = "OneOf" /\ heap.nodes[id].ready
                /\ heap.nodes[id].current_index >= Len(heap.nodes[id].fields)) =>
                   /\ heap.nodes[id].field_idx \in 0..(Len(heap.nodes[id].fields) - 1)
                   /\ heap.nodes[heap.nodes[id].fields[
                           heap.nodes[id].field_idx + 1]].current_index =
                          heap.nodes[id].current_index - Len(heap.nodes[id].fields) -
                              CountBefore(heap, id, heap.nodes[id].field_idx)
                   /\ heap.nodes[heap.nodes[id].fields[
                           heap.nodes[id].field_idx + 1]].current_index >= 0
                   /\ \A i \in DOMAIN heap.nodes[id].fields :
                          i # heap.nodes[id].field_idx + 1 =>
                              heap.nodes[heap.nodes[id].fields[i]].current_index = -1
                   /\ Field_render(heap, id) =
                          Field_render(heap, heap.nodes[id].fields[
                                                 heap.nodes[id].field_idx + 1])
        /\ Constructs(T_OneOf) =>
               \E k \in 0..7 :
                   Renders(log) =
                       SubSeq(<< <<"a">>, <<"s">>, <<"1">>, <<"a">>, <<"b">>,
                                 <<"1">>, <<"2">> >>, 1, k)

\* C21 witness: OneOf([Group(a,b), Static(s), Group(1,2)]) after its seventh
\* mutation: the cursor passed the Static and the third child is at its
\* second value
C21_LastChildLastValue ==
    /\ Constructs(T_OneOf) /\ heap.err = "" /\ op = "mutate" /\ ret
    /\ heap.nodes[root].current_index = 6
    /\ heap.nodes[root].field_idx = 2
    /\ heap.nodes[1].current_index = -1
    /\ heap.nodes[3].current_index = 1
    /\ Renders(log) = << <<"a">>, <<"s">>, <<"1">>, <<"a">>, <<"b">>,
                         <<"1">>, <<"2">> >>

-----------------------------------------------------------------------------
(* Properties of building and of getting ready, under SpecBuild *)

\* C9: a plain Container that is ready has num_mutations equal to the sum of
\* the num_mutations of the children it holds now, whatever calls were made
C9_ReadySum ==
    \A id \in DOMAIN heap.nodes :
        (heap.err = "" /\ heap.nodes[id].kind = "Container" /\ heap.nodes[id].ready) =>
            heap.nodes[id].num_mutations = ChildrenSum(heap, id)

\* C10: a container that is ready stays ready in every step but a
\* replace_fields on it, and while it is ready its num_mutations and the
\* target a ForEach resolved stay what they are; once every TakeFrom is ready
\* no step builds sub-containers (no object is created); num_mutations() on a
\* ready root changes nothing and returns the stored count
C10_ReadyFrozen ==
    [][/\ \A id \in DOMAIN heap.nodes :
              heap.nodes[id].ready =>
                  /\ heap'.nodes[id].ready \/ (op' = "replace_fields" /\ id = root)
                  /\ heap'.nodes[id].ready =>
                        /\ heap'.nodes[id].num_mutations = heap.nodes[id].num_mutations
                        /\ heap'.nodes[id].mutated_field = heap.nodes[id].mutated_field
       /\ (\A id \in DOMAIN heap.nodes :
              heap.nodes[id].kind = "TakeFrom" => heap.nodes[id].ready) =>
              Len(heap'.nodes) = Len(heap.nodes)
       /\ (op' = "num_mutations" /\ heap.nodes[root].ready) =>
              (heap' = heap /\ nm' = heap.nodes[root].num_mutations)
      ]_vars

\* C10 witness: num_mutations() on a root that was ready before its last
\* mutate() and holds a ready ForEach and a ready TakeFrom
C10_AskedAgain ==
    /\ heap.err = "" /\ op = "num_mutations" /\ trues > 0
    /\ heap.nodes[root].ready
    /\ \E id \in DOMAIN heap.nodes :
          heap.nodes[id].kind = "ForEach" /\ heap.nodes[id].ready
    /\ \E id \in DOMAIN heap.nodes :
          heap.nodes[id].kind = "TakeFrom" /\ heap.nodes[id].ready

-----------------------------------------------------------------------------
(* The caller of the Repeat constructor: Repeat([Static('a')], min_times,  *)
(* max_times, step) with every triple of small integers                    *)

\* the largest argument passed (the smallest is -1)
MaxArg == 3

InitRepeat ==
    /\ tmpl \in { << Static(<<"a">>), Repeat(<<1>>, min_times, max_times, step) >> :
                    min_times \in -1..MaxArg, max_times \in -1..MaxArg,
                    step \in -1..MaxArg }
    /\ root = 2
    /\ heap = Construct(EmptyHeap, Static(<<"a">>))
    /\ op = "init"
    /\ ret = FALSE
    /\ nm = -1
    /\ out = <<>>
    /\ hval = -2
    /\ calls = 0
    /\ trues = 0
    /\ log = <<>>
    /\ prevLog = <<>>
    /\ resets = 0
    /\ builds = 0

\* the constructor call Repeat(fields, min_times, max_times, step)
NewRepeat ==
    /\ op = "init"
    /\ heap' = Construct(heap, tmpl[2])
    /\ op' = "Repeat"
    /\ UNCHANGED <<root, tmpl, ret, nm, out, hval, calls, trues, log, prevLog, resets,
                   builds>>

\* num_mutations() of the Repeat that was constructed
RepeatNumMutations == op # "init" /\ NumMutations

NextRepeat == NewRepeat \/ RepeatNumMutations

SpecRepeat == InitRepeat /\ [][NextRepeat]_vars

-----------------------------------------------------------------------------
(* The caller of a TakeFrom: the field API called on a TakeFrom over three *)
(* or five fields                                                          *)

\* TakeFrom([Group(['a','b']), Static('s'), Group(['1','2'])], min_elements,
\*          max_elements)
TakeThree(min_elements, max_elements) ==
    << Group(NoName, ab), Static(<<"s">>), Group(NoName, n12),
       TakeFrom(<<1, 2, 3>>, min_elements, max_elements) >>

\* TakeFrom([Static('a'), Static('b'), Static('c'), Static('d'), Static('e')],
\*          min_elements=3)
T_TakeFive ==
    << Static(<<"a">>), Static(<<"b">>), Static(<<"c">>), Static(<<"d">>),
       Static(<<"e">>), TakeFrom(<<1, 2, 3, 4, 5>>, 3, None) >>

\* what the sampling loop produces for T_TakeFive: the lists random.sample
\* returns from the generator seeded with 0x1234 * 5 + 3, none of which equals
\* an earlier one as a list
TakeFive_sample ==
    << <<5, 2, 3>>, <<3, 2, 5>>, <<5, 2, 4>>, <<1, 5, 3, 4>>, <<4, 3, 1, 2>>,
       <<2, 4, 5, 1, 3>> >>

TakeTemplates == <<TakeThree(1, 1), TakeThree(1, 2), TakeThree(2, 5), T_TakeFive>>

\* the outcomes of the sampling loop for the t-th of them
TakeDraws(t) ==
    IF TakeTemplates[t] = T_TakeFive THEN {TakeFive_sample}
    ELSE Draws(Build(EmptyHeap, TakeTemplates[t]))

InitTake ==
    /\ tmpl \in 1..Len(TakeTemplates)
    /\ root = Len(TakeTemplates[tmpl])
    /\ heap \in {Constructed(Build(EmptyHeap, TakeTemplates[tmpl]), s) :
                    s \in TakeDraws(tmpl)}
    /\ op = "init"
    /\ ret = FALSE
    /\ nm = -1
    /\ out = <<>>
    /\ hval = -2
    /\ calls = 0
    /\ trues = 0
    /\ log = <<>>
    /\ prevLog = <<>>
    /\ resets = 0
    /\ builds = 0

\* the largest number of reset() calls made on a TakeFrom
MaxTakeResets == 1

TakeReset == resets < MaxTakeResets /\ Reset

NextTake == Mutate \/ NumMutations \/ Render \/ TakeReset

SpecTake == InitTake /\ [][NextTake]_vars

-----------------------------------------------------------------------------
(* The caller of copy(): the container constructed last before the root is *)
(* copied once, and the field API is called on the root and on the copy    *)

\* Template([Group(['a','b'], name='letters'),
\*           Container([ForEach('letters', [Group(['1','2'])])], name='c')])
T_CopyForEach ==
    << Group("letters", ab), Group(NoName, n12), ForEach("letters", 0, <<2>>),
       Container("Container", "c", <<3>>), Container("Template", NoName, <<1, 4>>) >>

\* Template([Container([Group(['a','b'], name='letters'),
\*                      ForEach('letters', [Group(['1','2'])])], name='c')])
T_CopyWithTarget ==
    << Group("letters", ab), Group(NoName, n12), ForEach("letters", 0, <<2>>),
       Container("Container", "c", <<1, 3>>), Container("Template", NoName, <<4>>) >>

\* Template([OneOf([Group(['a','b'], name='letters'), Group(['1','2'])], name='c')])
T_CopyOneOf ==
    << Group("letters", ab), Group(NoName, n12),
       Container("OneOf", "c", <<1, 2>>), Container("Template", NoName, <<3>>) >>

CopyTemplates == <<T_CopyForEach, T_CopyWithTarget, T_CopyOneOf>>

InitCopy ==
    /\ tmpl \in 1..Len(CopyTemplates)
    /\ root = Len(CopyTemplates[tmpl])
    /\ heap = Build(EmptyHeap, CopyTemplates[tmpl])
    /\ op = "init"
    /\ ret = FALSE
    /\ nm = -1
    /\ out = <<>>
    /\ hval = -2
    /\ calls = 0
    /\ trues = 0
    /\ log = <<>>
    /\ prevLog = <<>>
    /\ resets = 0
    /\ builds = 0

\* copy() was called: its result is the object allocated first after the root
Copied == Len(heap.nodes) > root

\* what a call on the copy leaves of the caller's records of the root
CopyCalled(name) ==
    /\ op' = name
    /\ out' = <<>> /\ hval' = -2
    /\ UNCHANGED <<root, tmpl, calls, trues, log, prevLog, resets, builds>>

\* dup = c.copy(), c the container constructed last before the root
Copy ==
    /\ heap.err = "" /\ ~Copied
    /\ heap' = Field_copy(heap, root - 1)
    /\ ret' = FALSE /\ nm' = -1
    /\ CopyCalled("copy")

\* dup.mutate()
CopyMutate ==
    /\ heap.err = "" /\ Copied
    /\ heap' = Field_mutate(heap, root + 1).h
    /\ ret' = Field_mutate(heap, root + 1).r
    /\ nm' = -1
    /\ CopyCalled("dup.mutate")

\* dup.reset()
CopyReset ==
    /\ heap.err = "" /\ Copied
    /\ heap' = Field_reset(heap, root + 1)
    /\ ret' = FALSE /\ nm' = -1
    /\ CopyCalled("dup.reset")

\* dup.num_mutations()
CopyNumMutations ==
    /\ heap.err = "" /\ Copied
    /\ heap' = Field_num_mutations(heap, root + 1).h
    /\ nm' = Field_num_mutations(heap, root + 1).r
    /\ ret' = FALSE
    /\ CopyCalled("dup.num_mutations")

\* the largest number of mutate() calls made on the root in one run
MaxCopyCalls == 3

\* the largest number of reset() calls made on the root
MaxCopyResets == 1

\* root.mutate()
RootMutate == calls < MaxCopyCalls /\ Mutate

\* root.reset()
RootReset == resets < MaxCopyResets /\ Reset

NextCopy ==
    \/ RootMutate \/ RootReset \/ NumMutations
    \/ Copy \/ CopyMutate \/ CopyReset \/ CopyNumMutations

SpecCopy == InitCopy /\ [][NextCopy]_vars

-----------------------------------------------------------------------------
(* The nesting builder: push, pop and append_fields called on an empty     *)
(* root, with containers left open to any depth; log holds the calls made, *)
(* in order, each with its arguments and whether it succeeded              *)

\* the fields the builder holds: a Group, a Static, three empty containers
\* (one of them a OneOf), and the root, Container(name='root')
T_Nest ==
    << Group(NoName, ab), Static(<<"s">>), Container("Container", "a", <<>>),
       Container("Container", NoName, <<>>), Container("OneOf", "o", <<>>),
       Container("Container", "root", <<>>) >>

\* the lists passed to append_fields: a container and a leaf, a leaf alone
NestBatches == { <<4, 1>>, <<2>> }

\* the largest number of calls made on the root
MaxNestCalls == 6

InitNest ==
    /\ tmpl = 0
    /\ root = Len(T_Nest)
    /\ heap = Build(EmptyHeap, T_Nest)
    /\ op = "init"
    /\ ret = FALSE
    /\ nm = -1
    /\ out = <<>>
    /\ hval = -2
    /\ calls = 0
    /\ trues = 0
    /\ log = <<>>
    /\ prevLog = <<>>
    /\ resets = 0
    /\ builds = 0

\* what every call of the nesting builder does to the caller's records
Nested(name, args) ==
    /\ builds < MaxNestCalls
    /\ heap.err = ""
    /\ builds' = builds + 1
    /\ op' = name
    /\ log' = Append(log, <<name, args, heap'.err = "">>)
    /\ UNCHANGED <<root, tmpl, ret, nm, out, hval, calls, trues, prevLog, resets>>

\* root.push(field), field held by no container yet
NestPush(field) ==
    /\ Holders(heap, field) = {}
    /\ heap' = Container_push(heap, root, field)
    /\ Nested("push", <<field>>)

\* root.pop()
NestPop ==
    /\ heap' = Container_pop(heap, root)
    /\ Nested("pop", <<>>)

\* root.append_fields(new_fields), the fields held by no container yet
NestAppendFields(new_fields) ==
    /\ \A f \in Range(new_fields) : Holders(heap, f) = {}
    /\ heap' = Container_append_fields(heap, root, new_fields)
    /\ Nested("append_fields", new_fields)

NextNest ==
    \/ \E field \in 1..(Len(T_Nest) - 1) : NestPush(field)
    \/ NestPop
    \/ \E new_fields \in NestBatches : NestAppendFields(new_fields)

SpecNest == InitNest /\ [][NextNest]_vars

-----------------------------------------------------------------------------
(* TakeFrom._get_ready step by step: the bounds, then one round of the     *)
(* sampling loop of _rebuild_fields per step (heap.sample is               *)
(* new_field_lists), then the rest of _rebuild_fields and of _get_ready    *)

\* how many of the lists drawn so far have k fields: i in the round of k
DrawnOf(h, k) == Cardinality({p \in DOMAIN h.sample : Len(h.sample[p]) = k})

RECURSIVE FieldListLenFrom(_, _, _)
\* field_list_len, counted up from k: the first length whose round has not
\* collected how_many = max_elements + 1 - k lists (max_elements + 1 when the
\* outer loop has ended)
FieldListLenFrom(h, id, k) ==
    IF k > h.nodes[id].max_elements THEN k
    ELSE IF DrawnOf(h, k) < h.nodes[id].max_elements + 1 - k THEN k
    ELSE FieldListLenFrom(h, id, k + 1)

FieldListLen(h, id) == FieldListLenFrom(h, id, h.nodes[id].min_elements)

\* the largest number of fields of a TakeFrom whose loop is followed
MaxTakeFields == 3

\* TakeFrom over one to three fields with every 0 <= min_elements <=
\* max_elements <= len(fields)
InitSample ==
    /\ tmpl \in { [i \in 1..(n + 1) |->
                     IF i <= n THEN TakeThree(min_elements, max_elements)[i]
                     ELSE TakeFrom([j \in 1..n |-> j], min_elements, max_elements)] :
                    n \in 1..MaxTakeFields, min_elements \in 0..MaxTakeFields,
                    max_elements \in 0..MaxTakeFields }
    /\ tmpl[Len(tmpl)].min_elements <= tmpl[Len(tmpl)].max_elements
    /\ tmpl[Len(tmpl)].max_elements <= Len(tmpl) - 1
    /\ root = Len(tmpl)
    /\ heap = Build(EmptyHeap, tmpl)
    /\ op = "init"
    /\ ret = FALSE
    /\ nm = -1
    /\ out = <<>>
    /\ hval = -2
    /\ calls = 0
    /\ trues = 0
    /\ log = <<>>
    /\ prevLog = <<>>
    /\ resets = 0
    /\ builds = 0

\* what a step of _get_ready leaves of the caller's records
InGetReady(name) ==
    /\ op' = name
    /\ UNCHANGED <<root, tmpl, ret, nm, out, hval, calls, trues, log, prevLog, resets,
                   builds>>

\* the first lines of _get_ready, up to the seeding of the generator
SampleBounds ==
    /\ op = "init"
    /\ heap' = TakeFrom_bounds(heap, root)
    /\ InGetReady("seed")

\* one round of the inner loop: current = self.random.sample(self._fields,
\* field_list_len), kept if it is not in new_field_lists
SampleDraw(current) ==
    /\ op \in {"seed", "sample"}
    /\ FieldListLen(heap, root) <= heap.nodes[root].max_elements
    /\ current \in Samples(Len(heap.nodes[root].fields), FieldListLen(heap, root))
    /\ heap' = [heap EXCEPT !.sample =
                    IF \E p \in DOMAIN @ : @[p] = current THEN @ ELSE Append(@, current)]
    /\ InGetReady("sample")

\* a round whose draw is kept
SampleDrawNew ==
    \E current \in Samples(Len(heap.nodes[root].fields), FieldListLen(heap, root)) :
        /\ \A p \in DOMAIN heap.sample : heap.sample[p] # current
        /\ SampleDraw(current)

\* a round whose draw is in new_field_lists already
SampleDrawAgain ==
    \E current \in Samples(Len(heap.nodes[root].fields), FieldListLen(heap, root)) :
        /\ \E p \in DOMAIN heap.sample : heap.sample[p] = current
        /\ SampleDraw(current)

\* the outer loop ends: control leaves the loops of _rebuild_fields
SampleLoopsEnd ==
    /\ op \in {"seed", "sample"}
    /\ FieldListLen(heap, root) > heap.nodes[root].max_elements
    /\ op' = "ready"

\* the loops have ended: the containers are built and _get_ready finishes
SampleRebuild ==
    /\ SampleLoopsEnd
    /\ heap' = TakeFrom_get_ready(heap, root)
    /\ InGetReady("ready")

NextSample == SampleBounds \/ SampleDrawNew \/ SampleDrawAgain \/ SampleRebuild

\* the generator returns, sooner or later, a list that was not drawn yet if
\* there is one, and the code runs on (the only step to "ready" is
\* SampleRebuild)
SpecSample ==
    /\ InitSample /\ [][NextSample]_vars
    /\ WF_vars(SampleBounds) /\ WF_vars(SampleDrawNew) /\ WF_op(SampleLoopsEnd)

-----------------------------------------------------------------------------
(* Properties of the Repeat constructor, under SpecRepeat *)

C14_ZeroMaxRefused ==
    /\ op = "Repeat" /\ heap.err # ""
    /\ tmpl[2].min_times = 0 /\ tmpl[2].max_times = 0 /\ tmpl[2].step = 1

\* the name index of container id agrees with its child list: every indexed
\* name is the name of the direct child it maps to, every named direct child
\* is indexed, and no two positions of the list hold fields of one name
IndexAgrees(h, id) ==
    /\ \A n \in DOMAIN h.nodes[id].fields_dict :
           /\ h.nodes[id].fields_dict[n] \in Range(h.nodes[id].fields)
           /\ h.nodes[h.nodes[id].fields_dict[n]].name = n
    /\ \A i \in DOMAIN h.nodes[id].fields :
           h.nodes[h.nodes[id].fields[i]].name # NoName =>
               /\ h.nodes[h.nodes[id].fields[i]].name \in DOMAIN h.nodes[id].fields_dict
               /\ h.nodes[id].fields_dict[h.nodes[h.nodes[id].fields[i]].name] =
                      h.nodes[id].fields[i]
               /\ \A j \in DOMAIN h.nodes[id].fields :
                      h.nodes[h.nodes[id].fields[j]].name =
                          h.nodes[h.nodes[id].fields[i]].name => j = i

\* C15: in every state every container's name index agrees with its child
\* list, and a push fails exactly when the name of the pushed field is
\* already indexed in the container that receives it, in which case no
\* container's child list or name index changes
C15_NameIndex ==
    /\ [](\A id \in DOMAIN heap.nodes : IsContainer(heap, id) => IndexAgrees(heap, id))
    /\ [][(op' = "push" /\ builds' = builds + 1) =>
             /\ heap'.err # "" =>
                    /\ \E field \in Pushable :
                           /\ Holders(heap, field) = {}
                           /\ heap.nodes[field].name \in
                                  DOMAIN heap.nodes[Receiver(heap, root)].fields_dict
                    /\ \A id \in DOMAIN heap.nodes :
                           /\ heap'.nodes[id].fields = heap.nodes[id].fields
                           /\ heap'.nodes[id].fields_dict = heap.nodes[id].fields_dict
             /\ heap'.err = "" =>
                    /\ heap'.nodes[Receiver(heap, root)].fields =
                           Append(heap.nodes[Receiver(heap, root)].fields,
                                  heap'.nodes[Receiver(heap, root)].fields[
                                      Len(heap'.nodes[Receiver(heap, root)].fields)])
                    /\ heap.nodes[heap'.nodes[Receiver(heap, root)].fields[
                            Len(heap'.nodes[Receiver(heap, root)].fields)]].name
                           \notin DOMAIN heap.nodes[Receiver(heap, root)].fields_dict
          ]_vars

\* C15 witness: the second Group named 'letters' was pushed to the root that
\* holds the first one; the push failed and the root holds what it held
C15_DuplicateRefused ==
    /\ op = "push" /\ heap.err # ""
    /\ heap.nodes[root].fields = <<1, 6>>
    /\ DOMAIN heap.nodes[root].fields_dict = {"letters"}
    /\ heap.nodes[root].fields_dict["letters"] = 1
    /\ heap.nodes[2].enclosing = root

-----------------------------------------------------------------------------
(* Properties of TakeFrom, under SpecTake *)

\* the fields the TakeFrom was constructed with
TakeOriginals == TakeTemplates[tmpl][root].fields

\* dup is a copy of field: another object with the attributes of field, but
\* for the enclosing container and the mutation index
CopyOf(h, dup, field) ==
    /\ dup # field
    /\ [h.nodes[dup] EXCEPT !.enclosing = 0, !.current_index = -1] =
           [h.nodes[field] EXCEPT !.enclosing = 0, !.current_index = -1]

\* sub-container sub of TakeFrom id holds copies of as many distinct original
\* fields as it has children, none of them an original itself
HoldsCopies(h, id, sub) ==
    /\ h.nodes[sub].kind = "Container"
    /\ h.nodes[sub].enclosing = id
    /\ \E s \in Samples(Len(TakeOriginals), Len(h.nodes[sub].fields)) :
           \A j \in DOMAIN h.nodes[sub].fields :
               /\ h.nodes[sub].fields[j] > root
               /\ h.nodes[h.nodes[sub].fields[j]].enclosing = sub
               /\ CopyOf(h, h.nodes[sub].fields[j], TakeOriginals[s[j]])

\* C16: a TakeFrom that is ready has max_elements clamped to the number of
\* fields it was given and, for each k from min_elements to max_elements,
\* exactly max_elements + 1 - k children with k fields, every child a
\* Container of copies of distinct original fields; its num_mutations is the
\* sum of the children's plus the number of children, and that is what
\* num_mutations() returns
C16_TakeFromRebuilt ==
    (heap.err = "" /\ heap.nodes[root].ready) =>
        /\ heap.nodes[root].max_elements =
               Min(IF TakeTemplates[tmpl][root].max_elements = None
                   THEN Len(TakeOriginals)
                   ELSE TakeTemplates[tmpl][root].max_elements, Len(TakeOriginals))
        /\ heap.nodes[root].min_elements = TakeTemplates[tmpl][root].min_elements
        /\ \A k \in heap.nodes[root].min_elements..heap.nodes[root].max_elements :
               Cardinality({i \in DOMAIN heap.nodes[root].fields :
                               Len(heap.nodes[heap.nodes[root].fields[i]].fields) = k}) =
                   heap.nodes[root].max_elements + 1 - k
        /\ \A i \in DOMAIN heap.nodes[root].fields :
               /\ Len(heap.nodes[heap.nodes[root].fields[i]].fields) \in
                      heap.nodes[root].min_elements..heap.nodes[root].max_elements
               /\ HoldsCopies(heap, root, heap.nodes[root].fields[i])
        /\ heap.nodes[root].num_mutations =
               ChildrenSum(heap, root) + Len(heap.nodes[root].fields)
        /\ op = "num_mutations" => nm = heap.nodes[root].num_mutations

\* C16 witness: TakeFrom over three fields with min_elements = 2 and
\* max_elements = 5 is ready with two children of two fields and one of three,
\* and num_mutations() returned more than their number
C16_TwoPairsOneTriple ==
    /\ TakeTemplates[tmpl] = TakeThree(2, 5)
    /\ heap.err = "" /\ op = "num_mutations" /\ nm > 3
    /\ Len(heap.nodes[root].fields) = 3
    /\ Len(heap.nodes[heap.nodes[root].fields[1]].fields) = 2
    /\ Len(heap.nodes[heap.nodes[root].fields[2]].fields) = 2
    /\ Len(heap.nodes[heap.nodes[root].fields[3]].fields) = 3

\* the original fields sub-container sub holds copies of
OriginalsOf(h, sub) ==
    {o \in Range(TakeOriginals) :
        \E j \in DOMAIN h.nodes[sub].fields : CopyOf(h, h.nodes[sub].fields[j], o)}

\* C17: no two children of a ready TakeFrom hold copies of the same set of
\* original fields
C17_DistinctOnMembership ==
    (heap.err = "" /\ heap.nodes[root].ready) =>
        \A i, j \in DOMAIN heap.nodes[root].fields :
            i # j => OriginalsOf(heap, heap.nodes[root].fields[i]) #
                         OriginalsOf(heap, heap.nodes[root].fields[j])

-----------------------------------------------------------------------------
(* Properties of copy(), under SpecCopy *)

\* the mutation state of the objects ids is the same in h and g
SameMutationState(h, g, ids) ==
    \A id \in ids :
        /\ g.nodes[id].current_index = h.nodes[id].current_index
        /\ g.nodes[id].field_idx = h.nodes[id].field_idx

\* C18: the direct children of the copy are copies enclosed by the copy, the
\* copy's name index holds only children of the copy, and a mutate, reset or
\* num_mutations call on the copy leaves the mutation state of every object
\* of the original tree as it is, as a call on the root does for the objects
\* of the copy
C18_CopyIndependent ==
    /\ [](Copied =>
             /\ \A i \in DOMAIN heap.nodes[root + 1].fields :
                    /\ heap.nodes[root + 1].fields[i] > root + 1
                    /\ heap.nodes[heap.nodes[root + 1].fields[i]].enclosing = root + 1
                    /\ heap.nodes[heap.nodes[root + 1].fields[i]].kind =
                           heap.nodes[heap.nodes[root - 1].fields[i]].kind
             /\ \A n \in DOMAIN heap.nodes[root + 1].fields_dict :
                    heap.nodes[root + 1].fields_dict[n] \in Range(heap.nodes[root + 1].fields))
    /\ [][/\ op' \in {"dup.mutate", "dup.reset", "dup.num_mutations"} =>
                SameMutationState(heap, heap', 1..root)
          /\ (Copied /\ op' \in {"mutate", "reset", "num_mutations"}) =>
                SameMutationState(heap, heap', (root + 1)..Len(heap.nodes))
         ]_vars

-----------------------------------------------------------------------------
(* Properties of the nesting builder, under SpecNest *)

\* the open containers after one more call c, s being those before it: a
\* successful push of a container opens it, a successful pop closes the
\* innermost one, append_fields opens nothing for longer than the call
OpenStep(s, c) ==
    IF ~c[3] THEN s
    ELSE IF c[1] = "push" /\ T_Nest[c[2][1]].class \notin {"Group", "Static"}
    THEN Append(s, c[2][1])
    ELSE IF c[1] = "pop" THEN SubSeq(s, 1, Len(s) - 1)
    ELSE s

RECURSIVE OpenAfter(_)
\* the containers that the calls l leave open, outermost first
OpenAfter(l) ==
    IF l = <<>> THEN <<>>
    ELSE OpenStep(OpenAfter(SubSeq(l, 1, Len(l) - 1)), l[Len(l)])

\* the container that receives a push made after the calls l
InnermostAfter(l) ==
    IF OpenAfter(l) = <<>> THEN root ELSE OpenAfter(l)[Len(OpenAfter(l))]

\* the fields a successful call number p of the log placed, in order
PlacedBy(p) ==
    IF log[p][3] /\ log[p][1] \in {"push", "append_fields"} THEN log[p][2] ELSE <<>>

RECURSIVE PlacedIn(_, _)
\* the fields that the first p calls of the log placed in container c, in
\* the order of the calls
PlacedIn(c, p) ==
    IF p = 0 THEN <<>>
    ELSE PlacedIn(c, p - 1) \o
             (IF InnermostAfter(SubSeq(log, 1, p - 1)) = c THEN PlacedBy(p) ELSE <<>>)

\* C22: after any calls of push, pop and append_fields on the root, every
\* container holds, after the children it was constructed with, exactly the
\* fields pushed while it was the innermost open container (the root while
\* none was open), in the order of the pushes; every field pushed is held
\* by that container alone and its enclosing is that container
C22_BuilderPlacement ==
    heap.err = "" =>
        /\ \A c \in DOMAIN heap.nodes :
               IsContainer(heap, c) =>
                   heap.nodes[c].fields = T_Nest[c].fields \o PlacedIn(c, Len(log))
        /\ \A p \in DOMAIN log :
               \A i \in DOMAIN PlacedBy(p) :
                   /\ Holders(heap, PlacedBy(p)[i]) =
                          {InnermostAfter(SubSeq(log, 1, p - 1))}
                   /\ heap.nodes[PlacedBy(p)[i]].enclosing =
                          InnermostAfter(SubSeq(log, 1, p - 1))

\* C22 witness: three containers were pushed one into the other and left
\* open, and the Group pushed next is a child of the third
C22_ThreeDeep ==
    /\ heap.err = "" /\ op = "push"
    /\ Len(heap.nodes[root].containers) = 3
    /\ heap.nodes[1].enclosing = heap.nodes[root].containers[3]
    /\ heap.nodes[heap.nodes[root].containers[3]].fields = <<1>>
    /\ heap.nodes[heap.nodes[root].containers[2]].fields =
           <<heap.nodes[root].containers[3]>>
    /\ heap.nodes[root].fields = <<heap.nodes[root].containers[1]>>

\* how many of the calls l were successful pushes of a container
ContainerPushes(l) ==
    Cardinality({p \in DOMAIN l :
                    /\ l[p][1] = "push" /\ l[p][3]
                    /\ T_Nest[l[p][2][1]].class \notin {"Group", "Static"}})

\* how many of the calls l were successful pops
SuccessfulPops(l) == Cardinality({p \in DOMAIN l : l[p][1] = "pop" /\ l[p][3]})

\* C23: the root's open stack is what the calls made leave open, and when as
\* many pops succeeded as containers were pushed every container's open
\* stack is empty; a pop succeeds iff more containers were pushed than pops
\* succeeded, a failing pop changes no object, a successful pop removes the
\* innermost open container from the root's stack and from the stack of the
\* container that holds it and changes no other stack and no child list;
\* append_fields leaves every open stack as it was
C23_OpenStack ==
    /\ [](/\ heap.nodes[root].containers = OpenAfter(log)
          /\ ContainerPushes(log) = SuccessfulPops(log) =>
                 \A c \in DOMAIN heap.nodes : heap.nodes[c].containers = <<>>)
    /\ [][/\ (op' = "pop" /\ builds' = builds + 1) =>
                /\ heap'.err = "" <=> ContainerPushes(log) > SuccessfulPops(log)
                /\ heap'.err # "" => heap'.nodes = heap.nodes
                /\ heap'.err = "" =>
                       /\ heap.nodes[root].containers =
                              Append(heap'.nodes[root].containers, InnermostAfter(log))
                       /\ \A c \in DOMAIN heap.nodes :
                              /\ heap'.nodes[c].fields = heap.nodes[c].fields
                              /\ c # root =>
                                     heap.nodes[c].containers =
                                         IF c = heap.nodes[InnermostAfter(log)].enclosing
                                         THEN Append(heap'.nodes[c].containers,
                                                     InnermostAfter(log))
                                         ELSE heap'.nodes[c].containers
          /\ (op' = "append_fields" /\ builds' = builds + 1 /\ heap'.err = "") =>
                \A c \in DOMAIN heap.nodes :
                    heap'.nodes[c].containers = heap.nodes[c].containers
         ]_vars

\* C23 witness: three containers were pushed one into the other and three
\* pops closed them, the last one leaving every open stack empty
C23_ThreeClosed ==
    /\ heap.err = "" /\ op = "pop" /\ builds = 6
    /\ ContainerPushes(log) = 3 /\ SuccessfulPops(log) = 3
    /\ Len(heap.nodes[root].fields) = 1
    /\ Len(heap.nodes[heap.nodes[root].fields[1]].fields) = 1
    /\ \A c \in DOMAIN heap.nodes : heap.nodes[c].containers = <<>>

\* C23 witness of the failing side: a pop after a push and a pop of one
\* container was refused
C23_PopRefused ==
    /\ heap.err # "" /\ op = "pop"
    /\ ContainerPushes(log) = 1 /\ SuccessfulPops(log) = 1

-----------------------------------------------------------------------------
(* Properties of TakeFrom._get_ready, under SpecSample *)

\* C24: for every TakeFrom with 0 <= min_elements <= max_elements <=
\* len(fields), _get_ready comes to its end: the TakeFrom is ready at last
C24_GetReadyTerminates == <>(heap.err = "" /\ heap.nodes[root].ready)

-----------------------------------------------------------------------------
(* Ranges of the mutation index and of the cursor, under Spec *)

\* the ForEach containers of the tree of the root
ForEachs == {id \in Tree(heap, root) : heap.nodes[id].kind = "ForEach"}

\* their targets, once resolved
Targets == {heap.nodes[id].mutated_field : id \in ForEachs} \ {0}

\* C25: every field of the tree has -1 <= current_index <= num_mutations - 1,
\* the target of a ForEach included, which the ForEach mutates besides the
\* target's own parent; and the reset(False) a ForEach makes of its children
\* leaves the ForEach's current_index as it was
C25_IndexInRange ==
    heap.err = "" =>
        /\ \A id \in Tree(heap, root) \cup Targets :
               /\ -1 <= heap.nodes[id].current_index
               /\ heap.nodes[id].current_index <= Field_num_mutations(heap, id).r - 1
        /\ \A id \in ForEachs :
               heap.nodes[id].mutated_field # 0 =>
                   ForEach_restart(heap, id).nodes[id].current_index =
                       heap.nodes[id].current_index

\* C25 is reached: the ForEach over the field letters = Group(a,b) with the
\* children Group(1,2) and Group(x,y) is at its last mutation, 7 of 8, and so
\* is letters, at 1 of 2, which only the ForEach has mutated
C25_TargetAtLast ==
    /\ Constructs(T_ForEachField) /\ heap.err = ""
    /\ heap.nodes[root].current_index = 7
    /\ heap.nodes[1].current_index = 1
    /\ op = "mutate" /\ ~ret

\* C26: a container with at least one child has 0 <= field_idx < len(fields),
\* and field_idx = 0 whenever it is outside mutation (current_index = -1)
C26_CursorInRange ==
    heap.err = "" =>
        \A id \in Tree(heap, root) \cup Targets :
            (IsContainer(heap, id) /\ heap.nodes[id].fields # <<>>) =>
                /\ 0 <= heap.nodes[id].field_idx
                /\ heap.nodes[id].field_idx < Len(heap.nodes[id].fields)
                /\ heap.nodes[id].current_index = -1 => heap.nodes[id].field_idx = 0

\* C26 is reached: in Template([Container([Group(a,b)], name=c),
\* Meta([Group(1,2)]), ...]) the third mutation finds c exhausted, resets it
\* and moves the Template's cursor to the Meta
C26_ExhaustedChildReset ==
    /\ Constructs(T_Nested) /\ heap.err = ""
    /\ heap.nodes[root].current_index = 2 /\ heap.nodes[root].field_idx = 1
    /\ heap.nodes[2].current_index = -1 /\ heap.nodes[2].field_idx = 0
    /\ heap.nodes[4].current_index = 0

-----------------------------------------------------------------------------
(* The top-level model: BaseModel of high_level/base.py, with the two hooks *)
(* a concrete model supplies                                                *)

\* the largest number of cases of a model
MaxCases == 5

\* the largest count given to skip
MaxCount == 4

\* BaseModel.__init__; cases is what the concrete model's _get_ready will
\* count, implemented whether the class overrides the two hooks
BaseModel(implemented, cases) ==
    [kind |-> "BaseModel", implemented |-> implemented, cases |-> cases,
     num_mutations |-> 0, current_index |-> -1, ready |-> FALSE]

\* _get_ready: not implemented by BaseModel; a concrete model counts its cases
\* once
BaseModel_get_ready(h, id) ==
    IF h.err # "" THEN h
    ELSE IF ~h.nodes[id].implemented THEN Raise(h, "NotImplementedError: _get_ready")
    ELSE IF h.nodes[id].ready THEN h
    ELSE [h EXCEPT !.nodes[id].num_mutations = h.nodes[id].cases,
                   !.nodes[id].ready = TRUE]

\* _mutate: not implemented by BaseModel; a concrete model moves its sequence,
\* which is no part of this state
BaseModel_mutate_hook(h, id) ==
    IF h.err # "" THEN h
    ELSE IF ~h.nodes[id].implemented THEN Raise(h, "NotImplementedError: _mutate")
    ELSE h

\* return self._num_mutations, after _get_ready
BaseModel_num_mutations_ready(h, id) ==
    [h |-> h, r |-> IF h.err # "" THEN 0 ELSE h.nodes[id].num_mutations]

BaseModel_num_mutations(h, id) ==
    BaseModel_num_mutations_ready(BaseModel_get_ready(h, id), id)

\* return self.num_mutations() - 1, n being what num_mutations returned
BaseModel_last_index_of(n) == [h |-> n.h, r |-> n.r - 1]

BaseModel_last_index(h, id) ==
    BaseModel_last_index_of(BaseModel_num_mutations(h, id))

\* return self._current_index == self.last_index(), l being what last_index
\* returned
BaseModel_is_last_index_of(l, id) ==
    [h |-> l.h, r |-> l.h.err = "" /\ l.h.nodes[id].current_index = l.r]

BaseModel_is_last_index(h, id) ==
    BaseModel_is_last_index_of(BaseModel_last_index(h, id), id)

\* a faulty variant: no look at the last index
BaseModel_mutate_checked_never(last, id) ==
    IF last.h.err # "" THEN [h |-> last.h, r |-> FALSE]
    ELSE [h |-> BaseModel_mutate_hook(
                    [last.h EXCEPT !.nodes[id].current_index = @ + 1], id),
          r |-> TRUE]

\* the lines of mutate after _is_last_index(), whose result is last
BaseModel_mutate_checked(last, id) ==
    IF last.h.err # "" \/ last.r THEN [h |-> last.h, r |-> FALSE]
    ELSE [h |-> BaseModel_mutate_hook(
                    [last.h EXCEPT !.nodes[id].current_index = @ + 1], id),
          r |-> TRUE]

BaseModel_mutate(h, id) ==
    BaseModel_mutate_checked(BaseModel_is_last_index(BaseModel_get_ready(h, id), id), id)

RECURSIVE SkipLoop(_, _, _, _, _)
\* the body of the loop of skip after self.mutate(), whose result is m
SkipNext(m, id, i, count, skipped) ==
    IF m.h.err # "" THEN [h |-> m.h, r |-> skipped]
    ELSE IF m.r THEN SkipLoop(m.h, id, i + 1, count, skipped + 1)
    ELSE [h |-> m.h, r |-> skipped]

\* for i in range(count), from i on
SkipLoop(h, id, i, count, skipped) ==
    IF h.err # "" \/ i >= count THEN [h |-> h, r |-> skipped]
    ELSE SkipNext(BaseModel_mutate(h, id), id, i, count, skipped)

BaseModel_skip(h, id, count) ==
    SkipLoop(BaseModel_get_ready(h, id), id, 0, count, 0)

\* a model right after its construction
InitModel ==
    /\ tmpl \in {<<BaseModel(implemented, cases)>> :
                    implemented \in BOOLEAN, cases \in 0..MaxCases}
    /\ root = 1
    /\ heap = [EmptyHeap EXCEPT !.nodes = tmpl]
    /\ op = "init"
    /\ ret = FALSE
    /\ nm = -1
    /\ out = <<>>
    /\ hval = -2
    /\ calls = 0
    /\ trues = 0
    /\ log = <<>>
    /\ prevLog = <<>>
    /\ resets = 0
    /\ builds = 0

\* model.mutate(); ret is what it returned
ModelMutate ==
    /\ heap.err = ""
    /\ heap' = BaseModel_mutate(heap, root).h
    /\ ret' = BaseModel_mutate(heap, root).r
    /\ op' = "mutate"
    /\ calls' = 0 /\ trues' = 0 /\ nm' = -1
    /\ UNCHANGED <<root, tmpl, out, hval, log, prevLog, resets, builds>>

\* model.skip(count); calls is the count and trues what skip returned
ModelSkip(count) ==
    /\ heap.err = ""
    /\ heap' = BaseModel_skip(heap, root, count).h
    /\ trues' = BaseModel_skip(heap, root, count).r
    /\ calls' = count
    /\ op' = "skip"
    /\ ret' = FALSE /\ nm' = -1
    /\ UNCHANGED <<root, tmpl, out, hval, log, prevLog, resets, builds>>

\* model.num_mutations(); nm is what it returned
ModelNumMutations ==
    /\ heap.err = ""
    /\ heap' = BaseModel_num_mutations(heap, root).h
    /\ nm' = BaseModel_num_mutations(heap, root).r
    /\ op' = "num_mutations"
    /\ ret' = FALSE /\ calls' = 0 /\ trues' = 0
    /\ UNCHANGED <<root, tmpl, out, hval, log, prevLog, resets, builds>>

NextModel ==
    \/ ModelMutate
    \/ \E count \in 0..MaxCount : ModelSkip(count)
    \/ ModelNumMutations

SpecModel == InitModel /\ [][NextModel]_vars

-----------------------------------------------------------------------------
(* Properties of the top-level model, under SpecModel *)

\* the last index of the model: its number of cases less one
LastIndex == heap.nodes[root].cases - 1

\* C27: skip(count) returns min(count, last_index - current_index) and moves
\* current_index on by that much; mutate() returns False and leaves
\* current_index where it is when current_index is num_mutations - 1 (the
\* model of no case, at -1, included), and else returns True and moves
\* current_index on by one
C27_SkipAndMutate ==
    [][heap'.err = "" =>
          /\ op' = "skip" =>
                /\ trues' = Min(calls', LastIndex - heap.nodes[root].current_index)
                /\ heap'.nodes[root].current_index =
                       heap.nodes[root].current_index + trues'
          /\ op' = "mutate" =>
                /\ ~ret' <=> heap.nodes[root].current_index = LastIndex
                /\ ~ret' => heap'.nodes[root].current_index =
                                heap.nodes[root].current_index
                /\ ret' => heap'.nodes[root].current_index =
                               heap.nodes[root].current_index + 1
          /\ heap'.nodes[root].num_mutations = LastIndex + 1]_vars

\* C27 is reached: a model of five cases at index 2 was asked to skip four
\* and skipped the two that were left
C27_SkipCutShort ==
    /\ heap.err = "" /\ heap.nodes[root].cases = 5
    /\ op = "skip" /\ calls = 4 /\ trues = 2
    /\ heap.nodes[root].current_index = 4

\* C27 is reached too: mutate() of a model of no case returned False
C27_NoCase ==
    /\ heap.err = "" /\ heap.nodes[root].cases = 0
    /\ op = "mutate" /\ ~ret /\ heap.nodes[root].current_index = -1

====
